---- MODULE Spec2Model ----
(***************************************************************************)
(* Codemm-Desktop backend: the per-slot problem generation pipeline.       *)
(*                                                                         *)
(*   Planner            deriveProblemPlan (planner/index.ts)               *)
(*   PerSlotGenerator   generateSingleProblem (generation/perSlotGenerator)*)
(*   TestStrengthGate   runTestStrengthGate (generation/testStrengthGate)  *)
(*   GenerationPipeline generateProblemsFromPlan, generateFromSession      *)
(*                                                                         *)
(* Source text (Java/Python/C++ programs, JSON) is represented by the      *)
(* facts the scanners read off it; every scanner is an operator on that    *)
(* representation.                                                         *)
(***************************************************************************)
EXTENDS Integers, Sequences, FiniteSets, TLC

(***************************************************************************)
(* Bounds of the model.                                                    *)
(***************************************************************************)
\* longest difficulty_plan drawn for the planner
MaxPlanEntries == 3
\* largest count of one difficulty_plan entry drawn for the planner
MaxEntryCount == 3
\* longest topic_tags list drawn for the planner
MaxTags == 4

(***************************************************************************)
(* Program constants.                                                      *)
(***************************************************************************)
\* deriveProblemPlan: problem_count must be between 1 and 7
MinProblemCount == 1
MaxProblemCount == 7
\* test_case_count is fixed at 8
TestCaseCount == 8

Difficulties == {"easy", "medium", "hard"}


(***************************************************************************)
(* Sequence helpers.                                                       *)
(***************************************************************************)
RECURSIVE SumCounts(_)
SumCounts(plan) ==
    IF plan = <<>> THEN 0 ELSE Head(plan).count + SumCounts(Tail(plan))

RECURSIVE Repeat(_, _)
Repeat(x, n) == IF n <= 0 THEN <<>> ELSE <<x>> \o Repeat(x, n - 1)

RECURSIVE Flatten(_)
Flatten(ss) == IF ss = <<>> THEN <<>> ELSE Head(ss) \o Flatten(Tail(ss))

SeqsUpTo(S, n) == UNION {[1..k -> S] : k \in 1..n}

Contains(seq, x) == \E i \in 1..Len(seq) : seq[i] = x

(***************************************************************************)
(* Planner (planner/index.ts).                                             *)
(***************************************************************************)
\* const order = { easy: 0, medium: 1, hard: 2 }
DifficultyOrder(d) == CASE d = "easy" -> 0 [] d = "medium" -> 1 [] OTHER -> 2

\* Array.prototype.sort with the comparator order[a] - order[b]: a stable
\* sort on a three-valued key, i.e. insertion of each entry behind the last
\* entry whose key is not larger.
RECURSIVE InsertStable(_, _)
InsertStable(sorted, e) ==
    IF sorted = <<>> THEN <<e>>
    ELSE IF DifficultyOrder(Head(sorted).difficulty) - DifficultyOrder(e.difficulty) > 0
         THEN <<e>> \o sorted
         ELSE <<Head(sorted)>> \o InsertStable(Tail(sorted), e)

RECURSIVE SortPlan(_)
SortPlan(plan) ==
    IF plan = <<>> THEN <<>>
    ELSE InsertStable(SortPlan(SubSeq(plan, 1, Len(plan) - 1)), plan[Len(plan)])

\* a planner that forgets the sort
expandDifficultySlotsUnsorted(spec) ==
    Flatten([k \in 1..Len(spec.difficulty_plan) |->
                Repeat(spec.difficulty_plan[k].difficulty, spec.difficulty_plan[k].count)])

expandDifficultySlots(spec) ==
    LET sorted == SortPlan(spec.difficulty_plan)
    IN  Flatten([k \in 1..Len(sorted) |-> Repeat(sorted[k].difficulty, sorted[k].count)])

\* tags[i % tags.length] with the code's 0-based i
TagAt(tags, i) == tags[(i % Len(tags)) + 1]

\* focusConcepts.filter(t => spec.topic_tags.includes(t))
FocusTags(spec, focusConcepts) ==
    SelectSeq(focusConcepts, LAMBDA t : Contains(spec.topic_tags, t))

\* a mutation of TopicsForSlot: no slot gets a secondary topic
TopicsForSlotPrimaryOnly(tags, difficulty, i) == <<TagAt(tags, i)>>

TopicsForSlot(tags, difficulty, i) ==
    LET primary == TagAt(tags, i)
        wantsSecondary == difficulty = "hard" /\ Len(tags) >= 2
        c1 == TagAt(tags, i + 1)
        c2 == TagAt(tags, i + 2)
    IN  IF ~wantsSecondary THEN <<primary>>
        ELSE IF c1 # primary THEN <<primary, c1>>
        ELSE IF c2 # primary THEN <<primary, c2>>
        ELSE <<primary>>

\* distributeTopics; ok = FALSE is the Error thrown for an empty tag list
distributeTopics(spec, difficulties, focusConcepts) ==
    LET focus == FocusTags(spec, focusConcepts)
        tags == IF Len(focus) > 0 THEN focus ELSE spec.topic_tags
    IN  IF Len(tags) = 0 THEN [ok |-> FALSE, assignments |-> <<>>]
        ELSE [ok |-> TRUE,
              assignments |-> [k \in 1..Len(difficulties) |->
                                  TopicsForSlot(tags, difficulties[k], k - 1)]]

\* ProblemPlanSchema (planner/types.ts): 1..7 slots, each with 1 or 2 topics,
\* a known difficulty and the fixed test_case_count
ProblemPlanSchemaOk(slots) ==
    /\ Len(slots) \in MinProblemCount..MaxProblemCount
    /\ \A k \in 1..Len(slots) :
          /\ Len(slots[k].topics) \in 1..2
          /\ slots[k].difficulty \in Difficulties
          /\ slots[k].index = k - 1

\* deriveProblemPlan(spec, policy) with policy.focus_concepts = focusConcepts
deriveProblemPlanWith(spec, focusConcepts) ==
    IF spec.problem_count < MinProblemCount \/ spec.problem_count > MaxProblemCount
    THEN [status |-> "throws", error |-> "problem_count must be between 1 and 7.", slots |-> <<>>]
    ELSE LET difficulties == expandDifficultySlots(spec)
         IN  IF Len(difficulties) # spec.problem_count
             THEN [status |-> "throws", error |-> "Difficulty expansion failed", slots |-> <<>>]
             ELSE LET topicAssignments == distributeTopics(spec, difficulties, focusConcepts)
                  IN  IF ~topicAssignments.ok
                      THEN [status |-> "throws", error |-> "topic_tags cannot be empty", slots |-> <<>>]
                      ELSE LET slots == [k \in 1..Len(difficulties) |->
                                           [index |-> k - 1,
                                            difficulty |-> difficulties[k],
                                            topics |-> topicAssignments.assignments[k],
                                            language |-> spec.language,
                                            problem_style |-> spec.problem_style,
                                            constraints |-> spec.constraints,
                                            test_case_count |-> spec.test_case_count]]
                           IN  IF ~ProblemPlanSchemaOk(slots)
                               THEN [status |-> "throws", error |-> "Invalid ProblemPlan", slots |-> <<>>]
                               ELSE [status |-> "returned", error |-> "", slots |-> slots]

deriveProblemPlan(spec) == deriveProblemPlanWith(spec, <<>>)

\* the optional PedagogyPolicy argument: absent, or guided with focus_concepts
NoPolicy == [mode |-> "none", focus_concepts |-> <<>>]

GuidedPolicy(focusConcepts) == [mode |-> "guided", focus_concepts |-> focusConcepts]

\* policy?.mode === "guided" && Array.isArray(policy.focus_concepts) ? policy.focus_concepts : []
FocusOf(policy) == IF policy.mode = "guided" THEN policy.focus_concepts ELSE <<>>

\* the canonical constraints string of a language (copied into every slot)
ConstraintsOf(language) ==
    CASE language = "java" -> "Java 17, JUnit 5, no package declarations."
      [] language = "python" -> "Python 3.11, pytest, standard library only"
      [] language = "cpp" -> "C++20, g++ (GNU), standard library only"
      [] OTHER -> "SQLite 3, read-only queries"

PlanEntries == [difficulty : Difficulties, count : 1..MaxEntryCount]
TagNames == {"polymorphism", "arrays"}

\* An ActivitySpec input of the planner
PlannerSpec(dp, tags, n) ==
    [language |-> "java", problem_count |-> n, difficulty_plan |-> dp,
     topic_tags |-> tags, problem_style |-> "stdout",
     constraints |-> ConstraintsOf("java"), test_case_count |-> TestCaseCount]

\* The problem_count and the policy that go with a difficulty_plan: a
\* one-entry plan is also drawn with a problem_count that does not match it
\* and with a guided policy; longer plans come with their own problem_count
\* and no policy.
ProblemCounts(dp) ==
    IF Len(dp) = 1 THEN {SumCounts(dp), SumCounts(dp) + 1} ELSE {SumCounts(dp)}

Policies(dp) ==
    IF Len(dp) = 1
    THEN {NoPolicy} \cup {GuidedPolicy(focus) : focus \in SeqsUpTo(TagNames, MaxTags)}
    ELSE {NoPolicy}

ValidActivitySpec(spec) ==
    /\ spec.problem_count \in MinProblemCount..MaxProblemCount
    /\ Len(spec.difficulty_plan) >= 1
    /\ \A k \in 1..Len(spec.difficulty_plan) : spec.difficulty_plan[k].count >= 1
    /\ SumCounts(spec.difficulty_plan) = spec.problem_count
    /\ Len(spec.topic_tags) >= 1

(***************************************************************************)
(* Java source as the scanner (utils/javaSource.ts) reads it: whether the  *)
(* text is non-empty, whether it has a package line, and its top-level     *)
(* type declarations in text order.  The remaining fields of a text are    *)
(* the answers of the regular-expression probes the generator applies.     *)
(***************************************************************************)
Decl(name, keyword, pub) == [name |-> name, keyword |-> keyword, pub |-> pub]

NoName == ""

\* F applied to the value of e: the value is computed once, as an assignment
\* to a local constant computes it
Bind(e, F(_)) == CHOOSE r \in {F(x) : x \in {e}} : TRUE

\* index of the first element satisfying P, 0 when there is none
FirstIndex(seq, P(_)) ==
    IF \E k \in 1..Len(seq) : P(seq[k])
    THEN CHOOSE k \in 1..Len(seq) : P(seq[k]) /\ \A j \in 1..(k - 1) : ~P(seq[j])
    ELSE 0

getTopLevelTypeDecls(src) == src.decls

getTopLevelPublicTypeDecls(src) == SelectSeq(src.decls, LAMBDA d : d.pub)

getTopLevelPublicTypeNames(src) ==
    LET pubs == getTopLevelPublicTypeDecls(src)
    IN  [k \in 1..Len(pubs) |-> pubs[k].name]

\* chooseKeptDecl / choosePromotedDecl: keepName if declared, else the first
\* non-interface type, else the first one.  The result is an index into decls.
chooseDeclIndex(decls, keepName) ==
    LET exact == FirstIndex(decls, LAMBDA d : d.name = keepName)
        preferred == FirstIndex(decls, LAMBDA d : d.keyword # "interface")
    IN  IF keepName # NoName /\ exact # 0 THEN exact
        ELSE IF preferred # 0 THEN preferred
        ELSE IF Len(decls) > 0 THEN 1 ELSE 0

demoteExtraTopLevelPublicTypes(src, keepName) ==
    LET decls == getTopLevelPublicTypeDecls(src)
    IN  IF Len(decls) <= 1 THEN [source |-> src, changed |-> FALSE]
        ELSE LET kept == decls[chooseDeclIndex(decls, keepName)]
                 out == [src EXCEPT !.decls =
                            [k \in 1..Len(src.decls) |->
                                IF src.decls[k].pub /\ src.decls[k].name # kept.name
                                THEN [src.decls[k] EXCEPT !.pub = FALSE]
                                ELSE src.decls[k]]]
             IN  [source |-> out, changed |-> out # src]

promoteOneTopLevelTypeToPublic(src, keepName) ==
    IF Len(getTopLevelPublicTypeDecls(src)) >= 1 THEN [source |-> src, changed |-> FALSE]
    ELSE LET decls == getTopLevelTypeDecls(src)
             chosen == chooseDeclIndex(decls, keepName)
         IN  IF chosen = 0 THEN [source |-> src, changed |-> FALSE]
             ELSE [source |-> [src EXCEPT !.decls[chosen].pub = TRUE], changed |-> TRUE]

\* rewriteJavaTopLevelPublicClassName: the first "public class X" becomes
\* "public class <expectedName>"
rewriteJavaTopLevelPublicClassName(src, expectedName) ==
    LET k == FirstIndex(src.decls, LAMBDA d : d.pub /\ d.keyword = "class")
    IN  IF expectedName = NoName \/ k = 0 \/ src.decls[k].name = expectedName
        THEN [source |-> src, changed |-> FALSE]
        ELSE [source |-> [src EXCEPT !.decls[k].name = expectedName], changed |-> TRUE]

\* utils/javaCodegen.ts inferClassName: the first public class, record or
\* enum, else the first public type, else the first class, else the fallback
inferClassName(src, fallback) ==
    LET publicKind == FirstIndex(src.decls, LAMBDA d : d.pub /\ d.keyword \in {"class", "record", "enum"})
        publicAny == FirstIndex(src.decls, LAMBDA d : d.pub)
        match == FirstIndex(src.decls, LAMBDA d : d.keyword = "class")
    IN  IF publicKind # 0 THEN src.decls[publicKind].name
        ELSE IF publicAny # 0 THEN src.decls[publicAny].name
        ELSE IF match # 0 THEN src.decls[match].name
        ELSE fallback

\* utils/javaCodegen.ts buildDefaultClassSkeleton
buildDefaultClassSkeleton(className) ==
    [present |-> TRUE, pkg |-> FALSE, decls |-> <<Decl(className, "class", TRUE)>>]

inferPrimaryClassName(src, fallback) ==
    LET names == getTopLevelPublicTypeNames(src)
    IN  IF Len(names) >= 1 /\ names[1] # NoName THEN names[1] ELSE inferClassName(src, fallback)

\* `Problem${slot.index + 1}`
ProblemName(index) ==
    CASE index = 0 -> "Problem1" [] index = 1 -> "Problem2" [] index = 2 -> "Problem3"
      [] OTHER -> "ProblemN"

\* `${className}Test`
TestNameOf(className) ==
    CASE className = "T" -> "TTest" [] className = "U" -> "UTest"
      [] className = "Problem1" -> "Problem1Test" [] className = "Problem2" -> "Problem2Test"
      [] className = "Problem3" -> "Problem3Test" [] className = "ProblemN" -> "ProblemNTest"
      [] OTHER -> "Test"

javaUsesStdin(src) == src.usesStdin
javaUsesStdout(src) == src.prints
hasJavaMainMethodAnySource(src) == src.present
hasJavaMainMethod(src) == src.hasMain
hasWhileFalse(src) == src.whileFalse
hasPackageLine(src) == src.pkg
isValidJUnit5TestSuite(ts) == ts.present /\ ts.junit
hasBrittleWhitespaceStringExpectations(ts) == ts.brittle # "none"
javaTestSuiteCapturesStdout(ts) == ts.captures
javaTestSuiteSetsStdin(ts) == ts.setsStdin

\* sanitizeJavaStringLiteralsBoundaryWhitespace: trims the literals it can
sanitizeJavaStringLiteralsBoundaryWhitespace(ts) ==
    IF ts.brittle = "trimmable"
    THEN [testSuite |-> [ts EXCEPT !.brittle = "none"], changed |-> TRUE]
    ELSE [testSuite |-> ts, changed |-> FALSE]

(***************************************************************************)
(* The same rewrite on the characters of a test suite.  A text is a        *)
(* sequence over Chars: "q" a double quote, "b" a backslash, "s" a space   *)
(* or tab, "x" any other character that is not a line terminator.          *)
(***************************************************************************)
Chars == {"q", "b", "s", "x"}

\* where /"((?:\\.|[^"\\])*)"/ ends when its body starts at position j:
\* the index of the closing quote, 0 when the pattern does not match
RECURSIVE literalEnd(_, _)
literalEnd(text, j) ==
    IF j > Len(text) THEN 0
    ELSE IF text[j] = "q" THEN j
    ELSE IF text[j] = "b" THEN (IF j + 1 > Len(text) THEN 0 ELSE literalEnd(text, j + 2))
    ELSE literalEnd(text, j + 1)

RECURSIVE dropLeadingBlanks(_)
dropLeadingBlanks(raw) ==
    IF raw # <<>> /\ Head(raw) = "s" THEN dropLeadingBlanks(Tail(raw)) ELSE raw

RECURSIVE dropTrailingBlanks(_)
dropTrailingBlanks(raw) ==
    IF raw # <<>> /\ raw[Len(raw)] = "s" THEN dropTrailingBlanks(SubSeq(raw, 1, Len(raw) - 1)) ELSE raw

\* the replace callback: an all-whitespace literal is kept, any other loses
\* its leading and trailing spaces and tabs
trimLiteral(raw) ==
    IF \A k \in 1..Len(raw) : raw[k] = "s" THEN raw
    ELSE dropTrailingBlanks(dropLeadingBlanks(raw))

\* String.prototype.replace with the global pattern, from position i on:
\* the leftmost match is replaced and the search resumes behind it
RECURSIVE replaceLiterals(_, _)
replaceLiterals(text, i) ==
    IF i > Len(text) THEN <<>>
    ELSE IF text[i] = "q" /\ literalEnd(text, i + 1) # 0
         THEN <<"q">> \o trimLiteral(SubSeq(text, i + 1, literalEnd(text, i + 1) - 1)) \o <<"q">>
                  \o replaceLiterals(text, literalEnd(text, i + 1) + 1)
         ELSE <<text[i]>> \o replaceLiterals(text, i + 1)

\* changed is set by the callback whenever a literal was trimmed
RECURSIVE literalTrimmed(_, _)
literalTrimmed(text, i) ==
    IF i > Len(text) THEN FALSE
    ELSE IF text[i] = "q" /\ literalEnd(text, i + 1) # 0
         THEN \/ trimLiteral(SubSeq(text, i + 1, literalEnd(text, i + 1) - 1))
                    # SubSeq(text, i + 1, literalEnd(text, i + 1) - 1)
              \/ literalTrimmed(text, literalEnd(text, i + 1) + 1)
         ELSE literalTrimmed(text, i + 1)

sanitizeText(text) ==
    [testSuite |-> replaceLiterals(text, 1), changed |-> literalTrimmed(text, 1)]

(***************************************************************************)
(* The Java scanner on text (utils/javaSource.ts).  A text is a sequence   *)
(* of lexemes: "q" a double quote, "a" a single quote, "b" a backslash,    *)
(* "n" a line feed, "/" "*" "{" "}" themselves, and the words public,      *)
(* class, T (a type name), in (System.in) and out (System.out.println( ).  *)
(* Words are separated from each other by blanks.                          *)
(***************************************************************************)
ScanWords == {"public", "class", "T", "in", "out"}

ScanChars == {"q", "a", "b", "n", "/", "*", "{", "}"} \cup ScanWords

CharAt(text, i) == IF i >= 1 /\ i <= Len(text) THEN text[i] ELSE ""

\* skipWhitespace: the index of the first lexeme at or after j that is not blank
RECURSIVE skipWhitespace(_, _)
skipWhitespace(text, j) ==
    IF j <= Len(text) /\ text[j] = "n" THEN skipWhitespace(text, j + 1) ELSE j

\* the ScanState part of the scanners without char literals, for comparison
RECURSIVE scanStatesNoCharLiterals(_, _, _)
scanStatesNoCharLiterals(text, i, state) ==
    IF i > Len(text) THEN <<>>
    ELSE CASE state = "line" ->
                <<"line">> \o scanStatesNoCharLiterals(text, i + 1, IF text[i] = "n" THEN "code" ELSE "line")
           [] state = "block" ->
                IF text[i] = "*" /\ CharAt(text, i + 1) = "/"
                THEN <<"block", "block">> \o scanStatesNoCharLiterals(text, i + 2, "code")
                ELSE <<"block">> \o scanStatesNoCharLiterals(text, i + 1, "block")
           [] state = "string" ->
                <<"string">> \o scanStatesNoCharLiterals(text, i + 1,
                                    CASE text[i] = "b" -> "stringEscaped"
                                      [] text[i] = "q" -> "code"
                                      [] OTHER -> "string")
           [] state = "stringEscaped" ->
                <<"string">> \o scanStatesNoCharLiterals(text, i + 1, "string")
           [] OTHER ->
                IF text[i] = "/" /\ CharAt(text, i + 1) = "/"
                THEN <<"open", "open">> \o scanStatesNoCharLiterals(text, i + 2, "line")
                ELSE IF text[i] = "/" /\ CharAt(text, i + 1) = "*"
                THEN <<"open", "open">> \o scanStatesNoCharLiterals(text, i + 2, "block")
                ELSE IF text[i] = "q"
                THEN <<"open">> \o scanStatesNoCharLiterals(text, i + 1, "string")
                ELSE <<"code">> \o scanStatesNoCharLiterals(text, i + 1, "code")

\* The ScanState part every scanner repeats: for each lexeme of the text,
\* "code" when the scanner handles it outside comments and literals, "open"
\* for the lexemes that open a comment or literal, else the comment or
\* literal the scanner is in when it consumes the lexeme.
RECURSIVE scanStates(_, _, _)
scanStates(text, i, state) ==
    IF i > Len(text) THEN <<>>
    ELSE CASE state = "line" ->
                <<"line">> \o scanStates(text, i + 1, IF text[i] = "n" THEN "code" ELSE "line")
           [] state = "block" ->
                IF text[i] = "*" /\ CharAt(text, i + 1) = "/"
                THEN <<"block", "block">> \o scanStates(text, i + 2, "code")
                ELSE <<"block">> \o scanStates(text, i + 1, "block")
           [] state = "string" ->
                <<"string">> \o scanStates(text, i + 1,
                                    CASE text[i] = "b" -> "stringEscaped"
                                      [] text[i] = "q" -> "code"
                                      [] OTHER -> "string")
           [] state = "stringEscaped" ->
                <<"string">> \o scanStates(text, i + 1, "string")
           [] state = "char" ->
                <<"char">> \o scanStates(text, i + 1,
                                  CASE text[i] = "b" -> "charEscaped"
                                    [] text[i] = "a" -> "code"
                                    [] OTHER -> "char")
           [] state = "charEscaped" ->
                <<"char">> \o scanStates(text, i + 1, "char")
           [] OTHER ->
                IF text[i] = "/" /\ CharAt(text, i + 1) = "/"
                THEN <<"open", "open">> \o scanStates(text, i + 2, "line")
                ELSE IF text[i] = "/" /\ CharAt(text, i + 1) = "*"
                THEN <<"open", "open">> \o scanStates(text, i + 2, "block")
                ELSE IF text[i] = "q"
                THEN <<"open">> \o scanStates(text, i + 1, "string")
                ELSE IF text[i] = "a"
                THEN <<"open">> \o scanStates(text, i + 1, "char")
                ELSE <<"code">> \o scanStates(text, i + 1, "code")

\* stripJavaCommentsAndStrings: comments and literals blanked, line feeds kept
stripJavaCommentsAndStrings(text) ==
    Bind(scanStates(text, 1, "code"), LAMBDA states :
        [i \in 1..Len(text) |->
            IF states[i] = "code" \/ text[i] = "n" THEN text[i] ELSE " "])

\* javaUsesStdin / javaUsesStdout on text: the patterns tested on the
\* stripped source
textUsesStdin(text) == Contains(stripJavaCommentsAndStrings(text), "in")

textUsesStdout(text) == Contains(stripJavaCommentsAndStrings(text), "out")

\* The lookahead behind a top-level `public`, from lexeme j: blanks are
\* skipped; a type keyword followed by a word yields that word as a name;
\* anything else ends the lookahead.  next is where the main loop resumes.
lookaheadPublic(text, j) ==
    LET k == skipWhitespace(text, j)
    IN  IF k > Len(text) \/ text[k] \notin ScanWords THEN [names |-> <<>>, next |-> k]
        ELSE IF text[k] = "class"
             THEN LET m == skipWhitespace(text, k + 1)
                  IN  IF m <= Len(text) /\ text[m] \in ScanWords
                      THEN [names |-> <<text[m]>>, next |-> m]
                      ELSE [names |-> <<>>, next |-> m]
             ELSE [names |-> <<>>, next |-> k + 1]

\* getTopLevelPublicTypeNames: the main loop from lexeme i at brace depth
RECURSIVE publicTypeNamesFrom(_, _, _, _)
publicTypeNamesFrom(text, states, i, depth) ==
    IF i > Len(text) THEN <<>>
    ELSE IF states[i] # "code" THEN publicTypeNamesFrom(text, states, i + 1, depth)
    ELSE IF text[i] = "{" THEN publicTypeNamesFrom(text, states, i + 1, depth + 1)
    ELSE IF text[i] = "}"
         THEN publicTypeNamesFrom(text, states, i + 1, IF depth > 0 THEN depth - 1 ELSE 0)
    ELSE IF depth # 0 \/ text[i] # "public" THEN publicTypeNamesFrom(text, states, i + 1, depth)
    ELSE lookaheadPublic(text, i + 1).names
            \o publicTypeNamesFrom(text, states, lookaheadPublic(text, i + 1).next, depth)

textTopLevelPublicTypeNames(text) ==
    Bind(scanStates(text, 1, "code"), LAMBDA states : publicTypeNamesFrom(text, states, 1, 0))

\* getTopLevelTypeDecls: a top-level type keyword followed by a word
RECURSIVE typeNamesFrom(_, _, _, _)
typeNamesFrom(text, states, i, depth) ==
    IF i > Len(text) THEN <<>>
    ELSE IF states[i] # "code" THEN typeNamesFrom(text, states, i + 1, depth)
    ELSE IF text[i] = "{" THEN typeNamesFrom(text, states, i + 1, depth + 1)
    ELSE IF text[i] = "}"
         THEN typeNamesFrom(text, states, i + 1, IF depth > 0 THEN depth - 1 ELSE 0)
    ELSE IF depth # 0 \/ text[i] # "class" THEN typeNamesFrom(text, states, i + 1, depth)
    ELSE LET j == skipWhitespace(text, i + 1)
         IN  IF j <= Len(text) /\ text[j] \in ScanWords
             THEN <<text[j]>> \o typeNamesFrom(text, states, j + 1, depth)
             ELSE typeNamesFrom(text, states, j, depth)

textTopLevelTypeNames(text) ==
    Bind(scanStates(text, 1, "code"), LAMBDA states : typeNamesFrom(text, states, 1, 0))

\* what the scanners report about a text
ScanResults(text) ==
    [types |-> textTopLevelTypeNames(text),
     publicTypes |-> textTopLevelPublicTypeNames(text),
     usesStdin |-> textUsesStdin(text),
     usesStdout |-> textUsesStdout(text)]

\* text with ins put in front of its lexeme at
InsertAt(text, at, ins) == SubSeq(text, 1, at - 1) \o ins \o SubSeq(text, at, Len(text))

(***************************************************************************)
(* Obligations (generation/obligations.ts, languages/java/structuralTopics)*)
(***************************************************************************)
StructuralKeys == {"polymorphism", "inheritance", "abstraction", "encapsulation", "composition"}

hasStructuralTopic(topics, key) == Contains(topics, key)

hasJavaStructuralTopics(topics) == \E k \in StructuralKeys : hasStructuralTopic(topics, k)

deriveSlotObligations(slot) ==
    (IF slot.language = "java"
     THEN {"java.single_public_type_per_unit", "java.test_class_matches_target",
           "java.primary_type_matches_target", "java.no_while_false",
           "java.stdout_solution_prints", "java.stdout_tests_capture"}
          \cup {k \in {"java.structural_topic.polymorphism"} :
                   hasStructuralTopic(slot.topics, "polymorphism")}
     ELSE {})
    \cup {"tests.reject_baselines"}

\* assertJavaStructuralTopicRequirements: the topic whose requirement fails,
\* "" when none does.  Of the five structural topics the model carries
\* polymorphism: a base type with two implementations in the reference, and a
\* test suite that mentions them and assigns an implementation to a base-typed
\* variable.
assertJavaStructuralTopicRequirements(topics, referenceSource, testSuite) ==
    IF hasStructuralTopic(topics, "polymorphism")
       /\ ~(referenceSource.polyBase /\ testSuite.polyTests)
    THEN "polymorphism"
    ELSE ""

(***************************************************************************)
(* PerSlotGenerator (generation/perSlotGenerator.ts).  One invocation of   *)
(* generateSingleProblem is a function of the slot, the LLM's answers and  *)
(* the judge's answer to the reference run of stdin-driven Java problems.  *)
(* Its outcome is the returned draft with the rewrites applied on the way, *)
(* or the error thrown: a GenerationContractError (contract = TRUE) with   *)
(* its message and obligation id, or a plain Error (contract = FALSE).     *)
(***************************************************************************)
NoDraft == [language |-> "none"]

NoText == [present |-> FALSE, pkg |-> FALSE, decls |-> <<>>]

ContractFailure(message, obligationId) ==
    [ok |-> FALSE, contract |-> TRUE, message |-> message, obligationId |-> obligationId,
     draft |-> NoDraft, rewrites |-> <<>>, suiteRepairCalls |-> 0, llmCalls |-> 0]

PlainFailure(message) ==
    [ok |-> FALSE, contract |-> FALSE, message |-> message, obligationId |-> "",
     draft |-> NoDraft, rewrites |-> <<>>, suiteRepairCalls |-> 0, llmCalls |-> 0]

Returned(draft, rewrites) ==
    [ok |-> TRUE, contract |-> FALSE, message |-> "", obligationId |-> "",
     draft |-> draft, rewrites |-> rewrites, suiteRepairCalls |-> 0, llmCalls |-> 0]

\* A constraints string: its text without boundary whitespace, and whether it
\* carries boundary whitespace.  isString = FALSE is a missing or non-string field.
ConstraintsText(isString, core, padded) == [isString |-> isString, core |-> core, padded |-> padded]

\* String.prototype.trim
Trim(text) == text.core

\* typeof raw.constraints === "string" ? raw.constraints.trim() : ""
rawConstraintsOf(raw) == IF raw.constraints.isString THEN Trim(raw.constraints) ELSE ""

\* a mutation of ConstraintsMismatch: the constraints of the completion are not compared
ConstraintsMismatchIgnored(raw, slot) == FALSE

\* rawConstraints && rawConstraints !== slot.constraints
ConstraintsMismatch(raw, slot) ==
    rawConstraintsOf(raw) # "" /\ rawConstraintsOf(raw) # slot.constraints

Min(a, b) == IF a <= b THEN a ELSE b

MaxSamplePairs == 10

\* coerceNonEmptySamplePairs over the numbers of non-blank sample entries
\* the coercion without its slice(0, 10), for comparison
coerceSamplePairsUnsliced(nInputs, nOutputs) ==
    LET nextInputs == IF nInputs = 0 THEN 1 ELSE nInputs
        nextOutputs == IF nOutputs = 0 THEN 1 ELSE nOutputs
    IN  IF nextInputs # nextOutputs
        THEN [sampleInputs |-> 1, sampleOutputs |-> 1, placeholder |-> nInputs = 0 \/ nOutputs = 0,
              changed |-> TRUE]
        ELSE [sampleInputs |-> nextInputs, sampleOutputs |-> nextOutputs,
              placeholder |-> nInputs = 0 \/ nOutputs = 0,
              changed |-> nInputs = 0 \/ nOutputs = 0]

coerceNonEmptySamplePairs(nInputs, nOutputs) ==
    LET inputs == Min(nInputs, MaxSamplePairs)
        outputs == Min(nOutputs, MaxSamplePairs)
        nextInputs == IF inputs = 0 THEN 1 ELSE inputs
        nextOutputs == IF outputs = 0 THEN 1 ELSE outputs
    IN  IF nextInputs # nextOutputs
        THEN [sampleInputs |-> 1, sampleOutputs |-> 1, placeholder |-> inputs = 0 \/ outputs = 0,
              changed |-> TRUE]
        ELSE [sampleInputs |-> nextInputs, sampleOutputs |-> nextOutputs,
              placeholder |-> inputs = 0 \/ outputs = 0,
              changed |-> inputs = 0 \/ outputs = 0]

\* a topic_tag that forgets the slot, for comparison
TopicTagOfDefault(slot) == "oop"

TopicTagOf(slot) == IF Len(slot.topics) >= 1 THEN slot.topics[1] ELSE "oop"

\* contracts/problem.ts GeneratedProblemDraftSchema, Java single-file variant
JavaDraftSchemaOk(draft) ==
    /\ draft.starter_code.present
    /\ draft.reference_solution.present
    /\ ~hasPackageLine(draft.reference_solution)
    /\ isValidJUnit5TestSuite(draft.test_suite)
    /\ draft.sample_inputs >= 1
    /\ draft.sample_outputs >= 1

StdinSampleCount == 8

\* buildJavaStdinSampleDrivenJUnitTestSuite: eight tests that set System.in,
\* run main and compare the captured stdout with the reference's
buildJavaStdinSampleDrivenJUnitTestSuite(testClassName) ==
    [present |-> TRUE, pkg |-> FALSE, decls |-> <<Decl(testClassName, "class", TRUE)>>,
     junit |-> TRUE, brittle |-> "none", captures |-> TRUE, setsStdin |-> TRUE,
     polyTests |-> FALSE]

RewriteIds(changed, id) == IF changed THEN <<id>> ELSE <<>>

\* The starter_code stage of the Java single-file branch: demote extra public
\* types, infer the class name, synthesize a skeleton for a missing or
\* packaged starter, promote a type when none is public.
prepareJavaStarter(slot, raw) ==
    Bind(demoteExtraTopLevelPublicTypes(raw.starter_code, NoName), LAMBDA demoted :
    Bind(inferPrimaryClassName(demoted.source, ProblemName(slot.index)), LAMBDA className1 :
    Bind(IF ~demoted.source.present \/ hasPackageLine(demoted.source)
         THEN buildDefaultClassSkeleton(className1)
         ELSE demoted.source, LAMBDA starter2 :
    Bind(inferPrimaryClassName(starter2, ProblemName(slot.index)), LAMBDA className :
    Bind(IF Len(getTopLevelPublicTypeNames(starter2)) = 0
         THEN promoteOneTopLevelTypeToPublic(starter2, className)
         ELSE [source |-> starter2, changed |-> FALSE], LAMBDA promoted :
        [starterCode |-> promoted.source,
         className |-> className,
         tooMany |-> Len(getTopLevelPublicTypeNames(starter2)) > 1,
         rewrites |-> RewriteIds(demoted.changed, "java.demote_extra_public_types")
                      \o RewriteIds(promoted.changed, "java.promote_public_type")])))))

\* The reference_solution stage: demote keeping the starter's class, promote
\* a type when none is public.
prepareJavaReference(raw, className) ==
    Bind(demoteExtraTopLevelPublicTypes(raw.reference_solution, className), LAMBDA demoted :
    Bind(IF Len(getTopLevelPublicTypeNames(demoted.source)) = 0
         THEN promoteOneTopLevelTypeToPublic(demoted.source, className)
         ELSE [source |-> demoted.source, changed |-> FALSE], LAMBDA promoted :
        [referenceSolution |-> promoted.source,
         tooMany |-> Len(getTopLevelPublicTypeNames(demoted.source)) > 1,
         rewrites |-> RewriteIds(demoted.changed, "java.demote_extra_public_types")
                      \o RewriteIds(promoted.changed, "java.promote_public_type")]))

\* The test_suite stage: rebuild from samples for a stdin-reading reference,
\* validate the JUnit structure, trim brittle literals, rename the test class.
prepareJavaTestSuite(raw, usesStdin, expectedTestClassName) ==
    Bind(IF usesStdin THEN buildJavaStdinSampleDrivenJUnitTestSuite(expectedTestClassName)
         ELSE raw.test_suite, LAMBDA suite :
    Bind(sanitizeJavaStringLiteralsBoundaryWhitespace(suite), LAMBDA sanitized :
    Bind(sanitized.changed /\ ~hasBrittleWhitespaceStringExpectations(sanitized.testSuite),
         LAMBDA healed :
    Bind(rewriteJavaTopLevelPublicClassName(
             IF hasBrittleWhitespaceStringExpectations(suite) THEN sanitized.testSuite ELSE suite,
             expectedTestClassName), LAMBDA renamed :
        [testSuite |-> renamed.source,
         junit |-> isValidJUnit5TestSuite(suite),
         brittleKept |-> hasBrittleWhitespaceStringExpectations(suite) /\ ~healed,
         sanitized |-> hasBrittleWhitespaceStringExpectations(suite) /\ healed,
         rewrites |-> RewriteIds(usesStdin, "java.tests.from_samples")
                      \o RewriteIds(renamed.changed, "java.rename_test_class")]))))

\* The samples of a Java draft: the eight stdin transcripts with the outputs
\* of the reference, else the coerced pairs of the completion
javaSamples(raw, usesStdin) ==
    IF usesStdin
    THEN [sampleInputs |-> StdinSampleCount, sampleOutputs |-> StdinSampleCount,
          placeholder |-> FALSE, changed |-> FALSE]
    ELSE coerceNonEmptySamplePairs(raw.sample_inputs, raw.sample_outputs)

\* The checks of the Java single-file branch over the prepared starter (st),
\* reference (rf), test suite (ts) and samples, in the order of the code: the
\* arms are tried in order, so each check is reached only when the checks
\* before it did not throw.
javaSingleFileChecks(slot, raw, judgeStderr, st, rf, ts, samples) ==
    LET usesStdin == javaUsesStdin(rf.referenceSolution)
        draft == [language |-> "java",
                  starter_code |-> st.starterCode,
                  test_suite |-> ts.testSuite,
                  reference_solution |-> rf.referenceSolution,
                  constraints |-> slot.constraints,
                  sample_inputs |-> samples.sampleInputs,
                  sample_outputs |-> samples.sampleOutputs,
                  difficulty |-> slot.difficulty,
                  topic_tag |-> TopicTagOf(slot)]
    IN  CASE st.tooMany ->
                ContractFailure("starter_code must not declare more than one top-level public type.",
                                "java.single_public_type_per_unit")
          [] Len(getTopLevelPublicTypeNames(st.starterCode)) = 0 ->
                ContractFailure("starter_code must declare exactly one top-level public type.",
                                "java.single_public_type_per_unit")
          [] ~raw.reference_solution.present ->
                ContractFailure("Missing reference_solution", "")
          [] rf.tooMany ->
                ContractFailure("reference_solution must not declare more than one top-level public type.",
                                "java.single_public_type_per_unit")
          [] Len(getTopLevelPublicTypeNames(rf.referenceSolution)) = 0 ->
                ContractFailure("reference_solution must declare exactly one top-level public type.",
                                "java.single_public_type_per_unit")
          [] hasPackageLine(rf.referenceSolution) ->
                ContractFailure("reference_solution contains package declaration.", "")
          [] hasWhileFalse(rf.referenceSolution) ->
                ContractFailure("reference_solution must not include while(false)", "java.no_while_false")
          [] inferPrimaryClassName(rf.referenceSolution, NoName) # st.className ->
                ContractFailure("reference_solution class name does not match starter_code class name",
                                "java.primary_type_matches_target")
          [] usesStdin /\ hasJavaStructuralTopics(slot.topics) ->
                ContractFailure("stdin reads are not allowed for Java structural-topic slots",
                                "java.stdin_disallowed_for_structural_topics")
          [] usesStdin /\ ~hasJavaMainMethod(rf.referenceSolution) ->
                ContractFailure("stdin-driven Java problems must provide a main entrypoint",
                                "java.stdin_requires_main")
          [] usesStdin /\ raw.sample_inputs < StdinSampleCount ->
                ContractFailure("stdin-driven Java problems must include at least 8 non-empty sample_inputs",
                                "java.stdin_tests_provide")
          [] usesStdin /\ judgeStderr ->
                ContractFailure("Reference execution produced stderr (stdin sample)", "")
          [] ~ts.junit ->
                ContractFailure("Invalid test_suite: JUnit 5 structure", "")
          [] ts.brittleKept ->
                ContractFailure("Invalid test_suite: brittle whitespace expectations", "")
          [] inferPrimaryClassName(ts.testSuite, TestNameOf(st.className)) # TestNameOf(st.className) ->
                ContractFailure("Test suite class name must match", "java.test_class_matches_target")
          [] assertJavaStructuralTopicRequirements(slot.topics, rf.referenceSolution, ts.testSuite) # "" ->
                ContractFailure("Java topic structure validation failed",
                                "java.structural_topic.polymorphism")
          [] ~javaUsesStdout(rf.referenceSolution) ->
                ContractFailure("reference_solution must write the final answer to stdout",
                                "java.stdout_solution_prints")
          [] ~javaTestSuiteCapturesStdout(ts.testSuite) ->
                ContractFailure("test_suite must capture stdout", "java.stdout_tests_capture")
          [] usesStdin /\ ~javaTestSuiteSetsStdin(ts.testSuite) ->
                ContractFailure("test_suite must set deterministic stdin", "java.stdin_tests_provide")
          [] ConstraintsMismatch(raw, slot) ->
                ContractFailure("Invalid constraints", "")
          [] ~JavaDraftSchemaOk(draft) ->
                ContractFailure("failed schema validation", "")
          [] OTHER ->
                Returned(draft, st.rewrites \o rf.rewrites \o ts.rewrites
                                \o RewriteIds(samples.changed, "samples.autofill"))

\* The Java single-file branch of generateSingleProblem
generateJavaSingleFile(slot, raw, judgeStderr) ==
    Bind(prepareJavaStarter(slot, raw), LAMBDA st :
    Bind(prepareJavaReference(raw, st.className), LAMBDA rf :
    Bind(prepareJavaTestSuite(raw, javaUsesStdin(rf.referenceSolution), TestNameOf(st.className)),
         LAMBDA ts :
    Bind(javaSamples(raw, javaUsesStdin(rf.referenceSolution)), LAMBDA samples :
        javaSingleFileChecks(slot, raw, judgeStderr, st, rf, ts, samples)))))

(***************************************************************************)
(* The steps of one pass through a Java branch, in the order of the code.  *)
(* A step is a mechanical rewrite of an artifact, the evaluation of an     *)
(* obligation (a check that throws ObligationViolationError) or another    *)
(* check.  A rewrite happens when it changes its artifact; a check that    *)
(* throws ends the pass.                                                   *)
(***************************************************************************)
Step(kind, id, artifacts, happens, throws, message) ==
    [kind |-> kind, id |-> id, artifacts |-> artifacts, happens |-> happens,
     throws |-> throws, message |-> message]

Artifact(field, index) == [field |-> field, index |-> index]

Rewrite(id, artifacts, changed) == Step("rewrite", id, artifacts, changed, FALSE, "")

Obligation(id, artifacts, violated, message) ==
    Step("obligation", id, artifacts, TRUE, violated, message)

Check(artifacts, fails, message) == Step("check", "", artifacts, TRUE, fails, message)

\* the steps that run: those that happen, up to the first that throws
RECURSIVE executedSteps(_)
executedSteps(all) ==
    IF all = <<>> THEN <<>>
    ELSE IF ~Head(all).happens THEN executedSteps(Tail(all))
    ELSE IF Head(all).throws THEN <<Head(all)>>
    ELSE <<Head(all)>> \o executedSteps(Tail(all))

\* the ids of the rewrites that pushed a record
pushedRewrites(steps) ==
    LET recorded == SelectSeq(steps, LAMBDA s : s.kind = "rewrite" /\ s.id # "")
    IN  [k \in 1..Len(recorded) |-> recorded[k].id]

\* what the pass returns: the contract failure of the step that threw, else
\* the draft with the rewrites recorded on the way
outcomeOfSteps(steps, draft) ==
    IF steps # <<>> /\ steps[Len(steps)].throws
    THEN ContractFailure(steps[Len(steps)].message, steps[Len(steps)].id)
    ELSE Returned(draft, pushedRewrites(steps))

(***************************************************************************)
(* The workspace branch of generateSingleProblem (Java).  A workspace is a *)
(* list of files, each a path (its name without ".java"), a role and a     *)
(* Java source.                                                            *)
(***************************************************************************)
WorkspaceFile(path, role, content) == [path |-> path, role |-> role, content |-> content]

\* getWorkspaceTargetFile: the first file whose role is not "entry", else the
\* first file; 0 when the workspace has no file
getWorkspaceTargetFile(raw) ==
    LET files == raw.workspace.files
        nonEntry == FirstIndex(files, LAMBDA f : f.role # "entry")
    IN  IF Len(files) = 0 THEN 0 ELSE IF nonEntry # 0 THEN nonEntry ELSE 1

\* the files after the demotion loop
demotedFiles(files) ==
    [k \in 1..Len(files) |->
        [files[k] EXCEPT !.content = demoteExtraTopLevelPublicTypes(files[k].content, files[k].path).source]]

\* one round of the loop over the files of a workspace: demote, then the
\* single-public-type obligation, then assertJavaFilenameMatchesPublicClass
workspaceFileSteps(field, files, k) ==
    LET rewritten == demoteExtraTopLevelPublicTypes(files[k].content, files[k].path)
        names == getTopLevelPublicTypeNames(rewritten.source)
    IN  <<Rewrite("java.demote_extra_public_types", {Artifact(field, k)}, rewritten.changed),
          Obligation("java.single_public_type_per_unit", {Artifact(field, k)}, Len(names) > 1,
                     "File must not declare more than one top-level public type."),
          Check({Artifact(field, k)}, Len(names) >= 1 /\ names[1] # files[k].path,
                "Public type must match filename.")>>

\* contracts/problem.ts GeneratedProblemDraftSchema, Java workspace variant
JavaWorkspaceDraftSchemaOk(draft) ==
    /\ Len(draft.workspace.files) >= 1
    /\ Len(draft.reference_workspace.files) >= 1
    /\ isValidJUnit5TestSuite(draft.test_suite)
    /\ draft.sample_inputs >= 1
    /\ draft.sample_outputs >= 1

\* the test suite of the workspace branch after the sanitiser and the rename
workspaceTestSuite(raw) ==
    LET suite == raw.test_suite
        sanitized == sanitizeJavaStringLiteralsBoundaryWhitespace(suite)
        healed == /\ hasBrittleWhitespaceStringExpectations(suite)
                  /\ sanitized.changed
                  /\ ~hasBrittleWhitespaceStringExpectations(sanitized.testSuite)
        target == getWorkspaceTargetFile(raw)
        expected == IF target = 0 THEN NoName ELSE TestNameOf(raw.workspace.files[target].path)
        renamed == rewriteJavaTopLevelPublicClassName(
                       IF healed THEN sanitized.testSuite ELSE suite, expected)
    IN  [testSuite |-> renamed.source, healed |-> healed, renamed |-> renamed.changed,
         expectedTestClassName |-> expected]

\* the reference files joined with blank lines, as the probes read them
refCombined(files) ==
    [whileFalse |-> \E k \in 1..Len(files) : hasWhileFalse(files[k].content),
     prints |-> \E k \in 1..Len(files) : javaUsesStdout(files[k].content),
     polyBase |-> \E k \in 1..Len(files) : files[k].content.polyBase]

\* the draft of the workspace branch
workspaceDraft(slot, raw) ==
    LET samples == coerceNonEmptySamplePairs(raw.sample_inputs, raw.sample_outputs)
    IN  [language |-> "java",
         workspace |-> [files |-> demotedFiles(raw.workspace.files)],
         reference_workspace |-> [files |-> demotedFiles(raw.reference_workspace.files)],
         test_suite |-> workspaceTestSuite(raw).testSuite,
         constraints |-> slot.constraints,
         sample_inputs |-> samples.sampleInputs,
         sample_outputs |-> samples.sampleOutputs,
         difficulty |-> slot.difficulty,
         topic_tag |-> TopicTagOf(slot)]

\* the steps of the workspace branch, in the order of the code
javaWorkspaceSteps(slot, raw) ==
    LET files == raw.workspace.files
        refFiles == raw.reference_workspace.files
        suite == raw.test_suite
        ts == workspaceTestSuite(raw)
        tests == {Artifact("test_suite", 0)}
        refs == {Artifact("reference_workspace", k) : k \in 1..Len(refFiles)}
        combined == refCombined(refFiles)
        paths(fs) == {fs[k].path : k \in 1..Len(fs)}
    IN  <<Check(tests, ~isValidJUnit5TestSuite(suite), "Invalid test_suite: JUnit 5 structure"),
          Rewrite("", tests, ts.healed),
          Check(tests, hasBrittleWhitespaceStringExpectations(suite) /\ ~ts.healed,
                "Invalid test_suite: brittle whitespace expectations"),
          Check({}, getWorkspaceTargetFile(raw) = 0, "workspace must include at least one file."),
          Rewrite("java.rename_test_class", tests, ts.renamed),
          Obligation("java.test_class_matches_target", tests,
                     inferPrimaryClassName(ts.testSuite, ts.expectedTestClassName)
                         # ts.expectedTestClassName,
                     "Test suite class name must match"),
          Obligation("java.no_while_false", refs, combined.whileFalse,
                     "reference workspace must not include while(false)"),
          Obligation("java.structural_topic.polymorphism", refs \cup tests,
                     assertJavaStructuralTopicRequirements(slot.topics, combined, ts.testSuite) # "",
                     "Java topic structure validation failed"),
          Obligation("java.stdout_solution_prints", refs, ~combined.prints,
                     "reference solution must write the final answer to stdout"),
          Obligation("java.stdout_tests_capture", tests, ~javaTestSuiteCapturesStdout(ts.testSuite),
                     "test_suite must capture stdout")>>
        \o Flatten([k \in 1..Len(files) |-> workspaceFileSteps("workspace", files, k)])
        \o Flatten([k \in 1..Len(refFiles) |-> workspaceFileSteps("reference_workspace", refFiles, k)])
        \o <<Check({}, paths(files) # paths(refFiles),
                   "reference_workspace must include the same file paths as workspace."),
             Check({}, ConstraintsMismatch(raw, slot), "Invalid constraints"),
             Rewrite("samples.autofill", {Artifact("sample_inputs", 0)},
                     coerceNonEmptySamplePairs(raw.sample_inputs, raw.sample_outputs).changed),
             Check({}, ~JavaWorkspaceDraftSchemaOk(workspaceDraft(slot, raw)),
                   "failed schema validation")>>

generateJavaWorkspace(slot, raw) ==
    outcomeOfSteps(executedSteps(javaWorkspaceSteps(slot, raw)), workspaceDraft(slot, raw))

\* the steps of the single-file branch, in the order of the code
javaSingleFileSteps(slot, raw, judgeStderr) ==
    LET st == prepareJavaStarter(slot, raw)
        rf == prepareJavaReference(raw, st.className)
        usesStdin == javaUsesStdin(rf.referenceSolution)
        ts == prepareJavaTestSuite(raw, usesStdin, TestNameOf(st.className))
        samples == javaSamples(raw, usesStdin)
        starter == {Artifact("starter_code", 0)}
        reference == {Artifact("reference_solution", 0)}
        tests == {Artifact("test_suite", 0)}
        pairs == {Artifact("sample_inputs", 0)}
        draft == [language |-> "java",
                  starter_code |-> st.starterCode,
                  test_suite |-> ts.testSuite,
                  reference_solution |-> rf.referenceSolution,
                  constraints |-> slot.constraints,
                  sample_inputs |-> samples.sampleInputs,
                  sample_outputs |-> samples.sampleOutputs,
                  difficulty |-> slot.difficulty,
                  topic_tag |-> TopicTagOf(slot)]
    IN  <<Rewrite("java.demote_extra_public_types", starter,
                  demoteExtraTopLevelPublicTypes(raw.starter_code, NoName).changed),
          Obligation("java.single_public_type_per_unit", starter, st.tooMany,
                     "starter_code must not declare more than one top-level public type."),
          Rewrite("java.promote_public_type", starter, Contains(st.rewrites, "java.promote_public_type")),
          Obligation("java.single_public_type_per_unit", starter,
                     Len(getTopLevelPublicTypeNames(st.starterCode)) = 0,
                     "starter_code must declare exactly one top-level public type."),
          Check(reference, ~raw.reference_solution.present, "Missing reference_solution"),
          Rewrite("java.demote_extra_public_types", reference,
                  demoteExtraTopLevelPublicTypes(raw.reference_solution, st.className).changed),
          Obligation("java.single_public_type_per_unit", reference, rf.tooMany,
                     "reference_solution must not declare more than one top-level public type."),
          Rewrite("java.promote_public_type", reference,
                  Contains(rf.rewrites, "java.promote_public_type")),
          Obligation("java.single_public_type_per_unit", reference,
                     Len(getTopLevelPublicTypeNames(rf.referenceSolution)) = 0,
                     "reference_solution must declare exactly one top-level public type."),
          Check(reference, hasPackageLine(rf.referenceSolution),
                "reference_solution contains package declaration."),
          Obligation("java.no_while_false", reference, hasWhileFalse(rf.referenceSolution),
                     "reference_solution must not include while(false)"),
          Obligation("java.primary_type_matches_target", reference,
                     inferPrimaryClassName(rf.referenceSolution, NoName) # st.className,
                     "reference_solution class name does not match starter_code class name"),
          Obligation("java.stdin_disallowed_for_structural_topics", reference,
                     usesStdin /\ hasJavaStructuralTopics(slot.topics),
                     "stdin reads are not allowed for Java structural-topic slots"),
          Obligation("java.stdin_requires_main", reference,
                     usesStdin /\ ~hasJavaMainMethod(rf.referenceSolution),
                     "stdin-driven Java problems must provide a main entrypoint"),
          Step("obligation", "java.stdin_tests_provide", pairs, usesStdin,
               raw.sample_inputs < StdinSampleCount,
               "stdin-driven Java problems must include at least 8 non-empty sample_inputs"),
          Step("check", "", reference, usesStdin, judgeStderr,
               "Reference execution produced stderr (stdin sample)"),
          Rewrite("java.tests.from_samples", tests, usesStdin),
          Check(tests, ~ts.junit, "Invalid test_suite: JUnit 5 structure"),
          Rewrite("", tests, ts.sanitized),
          Check(tests, ts.brittleKept, "Invalid test_suite: brittle whitespace expectations"),
          Rewrite("java.rename_test_class", tests, Contains(ts.rewrites, "java.rename_test_class")),
          Obligation("java.test_class_matches_target", tests,
                     inferPrimaryClassName(ts.testSuite, TestNameOf(st.className))
                         # TestNameOf(st.className),
                     "Test suite class name must match"),
          Obligation("java.structural_topic.polymorphism", reference \cup tests,
                     assertJavaStructuralTopicRequirements(slot.topics, rf.referenceSolution,
                                                           ts.testSuite) # "",
                     "Java topic structure validation failed"),
          Obligation("java.stdout_solution_prints", reference, ~javaUsesStdout(rf.referenceSolution),
                     "reference_solution must write the final answer to stdout"),
          Obligation("java.stdout_tests_capture", tests, ~javaTestSuiteCapturesStdout(ts.testSuite),
                     "test_suite must capture stdout"),
          Obligation("java.stdin_tests_provide", tests,
                     usesStdin /\ ~javaTestSuiteSetsStdin(ts.testSuite),
                     "test_suite must set deterministic stdin"),
          Check({}, ConstraintsMismatch(raw, slot), "Invalid constraints"),
          Rewrite("samples.autofill", pairs, samples.changed),
          Check({}, ~JavaDraftSchemaOk(draft), "failed schema validation")>>

\* raw.workspace && raw.reference_workspace
isWorkspaceShaped(raw) == "workspace" \in DOMAIN raw /\ "reference_workspace" \in DOMAIN raw

\* the steps the Java branches run on a parsed completion
javaSteps(slot, raw, judgeStderr) ==
    IF isWorkspaceShaped(raw) THEN executedSteps(javaWorkspaceSteps(slot, raw))
    ELSE executedSteps(javaSingleFileSteps(slot, raw, judgeStderr))

\* assertJavaLegacyDraftInvariants: the message of the Error thrown, "" when
\* the draft passes
assertJavaLegacyDraftInvariants(slot, draft) ==
    LET className == inferPrimaryClassName(draft.starter_code, ProblemName(slot.index))
        expectedTestClassName == TestNameOf(className)
    IN  CASE Len(getTopLevelPublicTypeNames(draft.starter_code)) # 1 ->
                "starter_code must declare exactly one top-level public type."
          [] inferPrimaryClassName(draft.test_suite, expectedTestClassName) # expectedTestClassName ->
                "Test suite class name must match"
          [] hasPackageLine(draft.reference_solution) ->
                "reference_solution contains package declaration."
          [] Len(getTopLevelPublicTypeNames(draft.reference_solution)) # 1 ->
                "reference_solution must declare exactly one top-level public type."
          [] inferPrimaryClassName(draft.reference_solution, NoName) # className ->
                "reference_solution class name does not match starter_code class name"
          [] hasWhileFalse(draft.reference_solution) ->
                "reference_solution must not include while(false)"
          [] OTHER -> ""

JavaReference(present, pkg, decls, whileFalse, usesStdin, hasMain, prints, polyBase) ==
    [present |-> present, pkg |-> pkg, decls |-> decls, whileFalse |-> whileFalse,
     usesStdin |-> usesStdin, hasMain |-> hasMain, prints |-> prints, polyBase |-> polyBase]

NoJavaReference == JavaReference(FALSE, FALSE, <<>>, FALSE, FALSE, FALSE, FALSE, FALSE)

\* sha256 of the raw completion text: injective on the texts of the model,
\* so the text itself stands for its digest
sha256(text) == text

\* repairJavaReferenceSolution: one completion, whose reference_solution is
\* trimmed; a reply without a reference_solution string reads as the empty text
repairJavaReferenceSolution(reply) ==
    [reference_solution |-> IF reply.isString THEN Trim(reply) ELSE NoJavaReference,
     llmOutputHash |-> sha256(reply),
     llmCalls |-> 1]

\* the repair path without its comparison with the previous reference
repairJavaReferencePathUncompared(slot, prev, repaired) ==
    LET nextDraft == [prev EXCEPT !.reference_solution = repaired]
        legacy == assertJavaLegacyDraftInvariants(slot, nextDraft)
    IN  CASE ~repaired.present ->
                PlainFailure("Java reference_solution repair failed: missing reference_solution.")
          [] ~JavaDraftSchemaOk(nextDraft) ->
                PlainFailure("Java reference_solution repair produced invalid draft")
          [] legacy # "" -> PlainFailure(legacy)
          [] OTHER -> Returned(nextDraft, <<>>)

\* The targeted reference-solution repair at the head of generateSingleProblem:
\* one LLM call (repairJavaReferenceSolution) whose answer replaces the
\* reference_solution of the previous draft.  Every error here is thrown
\* before the try block, so none is a GenerationContractError.  The texts of
\* a draft carry no boundary whitespace, so trim() leaves both sides of the
\* comparison as they are.
repairJavaReferencePath(slot, prev, repaired) ==
    LET nextDraft == [prev EXCEPT !.reference_solution = repaired]
        legacy == assertJavaLegacyDraftInvariants(slot, nextDraft)
    IN  CASE ~repaired.present ->
                PlainFailure("Java reference_solution repair failed: missing reference_solution.")
          [] repaired = prev.reference_solution ->
                PlainFailure("Java reference_solution repair made no changes.")
          [] ~JavaDraftSchemaOk(nextDraft) ->
                PlainFailure("Java reference_solution repair produced invalid draft")
          [] legacy # "" -> PlainFailure(legacy)
          [] OTHER -> Returned(nextDraft, <<>>)

(***************************************************************************)
(* Python texts as languages/python/rules.ts reads them: a source is valid *)
(* when PythonSourceSchema accepts it and prints when hasPythonStdoutWrites*)
(* matches; a test suite has the strongest pytest style it satisfies.      *)
(***************************************************************************)
normalizeProblemStyle(style) ==
    IF style \in {"stdout", "return", "mixed"} THEN style ELSE "return"

isValidPytestTestSuiteForStyle(ts, style) ==
    /\ ts.present
    /\ CASE normalizeProblemStyle(style) = "stdout" -> ts.style \in {"stdout", "mixed"}
         [] normalizeProblemStyle(style) = "mixed" -> ts.style = "mixed"
         [] OTHER -> ts.style \in {"return", "mixed"}

isValidPytestTestSuite(ts) ==
    \/ isValidPytestTestSuiteForStyle(ts, "return")
    \/ isValidPytestTestSuiteForStyle(ts, "stdout")
    \/ isValidPytestTestSuiteForStyle(ts, "mixed")

hasPythonStdoutWrites(src) == src.prints

\* "def solve(x): raise NotImplementedError"
DefaultPythonStarter == [present |-> TRUE, valid |-> TRUE, prints |-> FALSE]

\* contracts/problem.ts GeneratedProblemDraftSchema, Python variant: the
\* paths of its issues
PythonSchemaIssues(draft) ==
    {f \in {"starter_code"} : ~(draft.starter_code.present /\ draft.starter_code.valid)}
    \cup {f \in {"reference_solution"} :
             ~(draft.reference_solution.present /\ draft.reference_solution.valid)}
    \cup {f \in {"test_suite"} : ~isValidPytestTestSuite(draft.test_suite)}

\* The draft the Python branch assembles from the completion before it
\* validates it
pythonDraft(slot, raw) ==
    LET starterCode == IF raw.starter_code.present THEN raw.starter_code ELSE DefaultPythonStarter
        samples == coerceNonEmptySamplePairs(raw.sample_inputs, raw.sample_outputs)
    IN  [language |-> "python",
         starter_code |-> starterCode,
         test_suite |-> raw.test_suite,
         reference_solution |-> raw.reference_solution,
         constraints |-> slot.constraints,
         sample_inputs |-> samples.sampleInputs,
         sample_outputs |-> samples.sampleOutputs,
         difficulty |-> slot.difficulty,
         topic_tag |-> TopicTagOf(slot)]

\* a mutation of generatePython: a repaired suite that fails validation is
\* sent to the repairer once more
generatePythonRepairingAgain(slot, raw, suiteRepair) ==
    LET draft == pythonDraft(slot, raw)
        repairs == PythonSchemaIssues(draft) = {"test_suite"}
        repairedDraft == [draft EXCEPT !.test_suite = suiteRepair.test_suite]
    IN  IF ~repairs THEN ContractFailure("failed schema validation", "")
        ELSE IF suiteRepair.throws \/ PythonSchemaIssues(repairedDraft) # {}
        THEN [ContractFailure("failed schema validation after Python test_suite repair", "")
                 EXCEPT !.suiteRepairCalls = 2]
        ELSE [Returned(repairedDraft, <<>>) EXCEPT !.suiteRepairCalls = 1]

\* The Python branch of generateSingleProblem.  suiteRepair is the answer of
\* the repairPythonTestSuite call, read only when the call is made: "throws"
\* when the completion fails or carries no test_suite, else the new suite.
generatePython(slot, raw, suiteRepair) ==
    LET draft == pythonDraft(slot, raw)
        issues == PythonSchemaIssues(draft)
        repairs == issues = {"test_suite"}
        repairedDraft == [draft EXCEPT !.test_suite = suiteRepair.test_suite]
        parsed == IF repairs THEN repairedDraft ELSE draft
        style == normalizeProblemStyle(slot.problem_style)
        calls == IF repairs THEN 1 ELSE 0
        outcome ==
            CASE raw.workspace ->
                    ContractFailure("Python generation does not support workspace problems yet.", "")
              [] ~raw.reference_solution.present ->
                    ContractFailure("Missing reference_solution", "")
              [] ConstraintsMismatch(raw, slot) ->
                    ContractFailure("Invalid constraints", "")
              [] issues # {} /\ ~repairs ->
                    ContractFailure("failed schema validation", "")
              [] repairs /\ suiteRepair.throws ->
                    ContractFailure("Python test_suite repair failed", "")
              [] repairs /\ PythonSchemaIssues(repairedDraft) # {} ->
                    ContractFailure("failed schema validation after Python test_suite repair", "")
              [] ~isValidPytestTestSuiteForStyle(parsed.test_suite, style) ->
                    ContractFailure("Invalid test_suite: does not match problem_style requirements", "")
              [] style = "return" /\ hasPythonStdoutWrites(parsed.reference_solution) ->
                    ContractFailure("Invalid reference_solution: must not write to stdout", "")
              [] style # "return" /\ ~hasPythonStdoutWrites(parsed.reference_solution) ->
                    ContractFailure("Invalid reference_solution: must write the final answer to stdout", "")
              [] OTHER -> Returned(parsed, <<>>)
        reached == ~raw.workspace /\ raw.reference_solution.present /\ ~ConstraintsMismatch(raw, slot)
    IN  [outcome EXCEPT !.suiteRepairCalls = IF reached THEN calls ELSE 0]

(***************************************************************************)
(* C++ texts as languages/cpp/rules.ts reads them: a source is valid when  *)
(* the schema's C++ source rule accepts it (it defines solve(...)), prints *)
(* when hasCppStdoutWrites matches, and has a signature when the pattern   *)
(* of extractCppSolveSignature finds a solve definition whose return type  *)
(* it can read; a test suite has style "invalid" when the harness shape is *)
(* broken, else the style its assertions follow.                           *)
(***************************************************************************)
\* extractCppSolveSignature: null when the pattern does not match
extractCppSolveSignature(referenceSolution) ==
    IF referenceSolution.present /\ referenceSolution.signature THEN "signature" ELSE "null"

hasCppStdoutWrites(src) == src.prints

looksLikeCppTestSuiteCapturesStdout(ts) == ts.style \in {"stdout", "mixed"}

isValidCppTestSuite(ts) == ts.present /\ ts.style # "invalid"

\* "auto solve(auto x) { (void)x; return 0; }" after the include line
DefaultCppStarter == [present |-> TRUE, valid |-> TRUE, prints |-> FALSE, signature |-> TRUE]

\* synthesizeCppStarterCodeFromReference: a stub with the signature of the
\* reference's solve(...), absent when no signature can be extracted
synthesizeCppStarterCodeFromReference(referenceSolution) ==
    LET found == extractCppSolveSignature(referenceSolution) # "null"
    IN  [present |-> found, valid |-> found, prints |-> FALSE, signature |-> found]

\* contracts/problem.ts GeneratedProblemDraftSchema, C++ variant: the paths
\* of its issues
CppSchemaIssues(draft) ==
    {f \in {"starter_code"} : ~(draft.starter_code.present /\ draft.starter_code.valid)}
    \cup {f \in {"reference_solution"} :
             ~(draft.reference_solution.present /\ draft.reference_solution.valid)}
    \cup {f \in {"test_suite"} : ~isValidCppTestSuite(draft.test_suite)}

\* The draft the C++ branch assembles from the completion before it
\* validates it
cppDraft(slot, raw) ==
    LET given == IF raw.starter_code.present THEN raw.starter_code ELSE DefaultCppStarter
        synthesized == synthesizeCppStarterCodeFromReference(raw.reference_solution)
        starterCode == IF ~given.valid /\ synthesized.present THEN synthesized ELSE given
        samples == coerceNonEmptySamplePairs(raw.sample_inputs, raw.sample_outputs)
    IN  [language |-> "cpp",
         starter_code |-> starterCode,
         test_suite |-> raw.test_suite,
         reference_solution |-> raw.reference_solution,
         constraints |-> slot.constraints,
         sample_inputs |-> samples.sampleInputs,
         sample_outputs |-> samples.sampleOutputs,
         difficulty |-> slot.difficulty,
         topic_tag |-> TopicTagOf(slot)]

\* The C++ branch of generateSingleProblem.  suiteRepair is the answer of the
\* repairCppTestSuite call, read only when the call is made.
generateCpp(slot, raw, suiteRepair) ==
    LET draft == cppDraft(slot, raw)
        issues == CppSchemaIssues(draft)
        failedTestSuite == "test_suite" \in issues
        repairedDraft == [draft EXCEPT !.test_suite = suiteRepair.test_suite]
        parsed == IF failedTestSuite THEN repairedDraft ELSE draft
        style == normalizeProblemStyle(slot.problem_style)
        calls == IF failedTestSuite THEN 1 ELSE 0
        outcome ==
            CASE raw.workspace ->
                    ContractFailure("C++ generation does not support workspace problems yet.", "")
              [] ~raw.test_suite.present ->
                    ContractFailure("Invalid test_suite: missing", "")
              [] ~raw.reference_solution.present ->
                    ContractFailure("Missing reference_solution", "")
              [] ConstraintsMismatch(raw, slot) ->
                    ContractFailure("Invalid constraints", "")
              [] failedTestSuite /\ suiteRepair.throws ->
                    ContractFailure("C++ test_suite repair failed", "")
              [] failedTestSuite /\ CppSchemaIssues(repairedDraft) # {} ->
                    ContractFailure("failed schema validation after C++ test_suite repair", "")
              [] issues # {} /\ ~failedTestSuite ->
                    ContractFailure("failed schema validation", "")
              [] style = "return" /\ hasCppStdoutWrites(parsed.reference_solution) ->
                    ContractFailure("Invalid reference_solution: must not write to stdout", "")
              [] style = "return" /\ looksLikeCppTestSuiteCapturesStdout(parsed.test_suite) ->
                    ContractFailure("Invalid test_suite: should not capture stdout", "")
              [] style # "return" /\ ~hasCppStdoutWrites(parsed.reference_solution) ->
                    ContractFailure("Invalid reference_solution: must write the final answer to stdout", "")
              [] style # "return" /\ ~looksLikeCppTestSuiteCapturesStdout(parsed.test_suite) ->
                    ContractFailure("Invalid test_suite: must capture std::cout output", "")
              [] OTHER -> Returned(parsed, <<>>)
        reached == /\ ~raw.workspace
                   /\ raw.test_suite.present
                   /\ raw.reference_solution.present
                   /\ ~ConstraintsMismatch(raw, slot)
    IN  [outcome EXCEPT !.suiteRepairCalls = IF reached THEN calls ELSE 0]

\* the message of the error createCodemmCompletion rejects with when the
\* request to the LLM fails or times out
TransportErrorMessage == "LLM request failed"

\* the answer of the suite repair call: the call rejects when the transport
\* fails, as it does when the reply carries no test_suite
suiteRepairAnswer(llm) ==
    IF llm.failingCall = "suite_repair" THEN [llm.suiteRepair EXCEPT !.throws = TRUE]
    ELSE llm.suiteRepair

\* generateSingleProblem.  repair.previousDraft is NoDraft when the caller
\* passes none; llm holds the completions the invocation can consume and the
\* LLM call whose transport fails, if any.  The generation call and the
\* reference repair call are awaited outside the try block, the suite repair
\* calls inside it.
generateSingleProblem(slot, repair, llm) ==
    IF /\ slot.language = "java"
       /\ repair.previousDraft # NoDraft
       /\ "reference_solution" \in DOMAIN repair.previousDraft
    THEN IF llm.failingCall = "reference_repair"
         THEN [meta |-> [llmOutputHash |-> NoDraft], path |-> "reference_repair"]
              @@ [PlainFailure(TransportErrorMessage) EXCEPT !.llmCalls = 1]
         ELSE Bind(repairJavaReferenceSolution(llm.repaired), LAMBDA answer :
              [[meta |-> [llmOutputHash |-> answer.llmOutputHash], path |-> "reference_repair"]
               @@ repairJavaReferencePath(slot, repair.previousDraft, answer.reference_solution)
                 EXCEPT !.llmCalls = answer.llmCalls])
    ELSE IF llm.failingCall = "generation"
         THEN [meta |-> [llmOutputHash |-> NoDraft], path |-> "generate"]
              @@ [PlainFailure(TransportErrorMessage) EXCEPT !.llmCalls = 1]
         ELSE Bind([meta |-> [llmOutputHash |-> sha256(llm.raw)], path |-> "generate"]
              @@ (IF ~llm.raw.json THEN ContractFailure("LLM response is not a valid JSON object.", "")
                  ELSE IF slot.language = "python"
                       THEN generatePython(slot, llm.raw, suiteRepairAnswer(llm))
                  ELSE IF slot.language = "cpp"
                       THEN generateCpp(slot, llm.raw, suiteRepairAnswer(llm))
                  ELSE IF isWorkspaceShaped(llm.raw) THEN generateJavaWorkspace(slot, llm.raw)
                  ELSE generateJavaSingleFile(slot, llm.raw, llm.judgeStderr)),
              LAMBDA out : [out EXCEPT
                               !.llmCalls = 1 + out.suiteRepairCalls,
                               !.message = IF /\ llm.failingCall = "suite_repair"
                                              /\ out.suiteRepairCalls > 0
                                           THEN TransportErrorMessage ELSE @])

(***************************************************************************)
(* The completions the LLM can return.  A completion is the parsed JSON    *)
(* object; each field ranges over a few texts that take the generator down *)
(* its different branches.  WellFormed* is an answer that follows the      *)
(* prompt; the others differ from it in a bounded number of fields.        *)
(***************************************************************************)
MaxDeviations == 2

\* top-level type declarations of a drawn Java source
MaxDecls == 3

\* characters of a drawn test-suite text
MaxTextLen == 6

\* lexemes of a drawn Java text
MaxScanLen == 4

JavaText(pkg, decls) == [present |-> TRUE, pkg |-> pkg, decls |-> decls]

WellFormedJavaStarter == JavaText(FALSE, <<Decl("T", "class", TRUE)>>)

JavaStarterTexts ==
    {WellFormedJavaStarter,
     NoText,
     JavaText(TRUE, <<Decl("T", "class", TRUE)>>),
     JavaText(FALSE, <<Decl("T", "class", TRUE), Decl("U", "class", TRUE)>>),
     JavaText(FALSE, <<Decl("Shape", "interface", TRUE), Decl("T", "class", TRUE)>>),
     JavaText(FALSE, <<Decl("T", "class", FALSE)>>),
     JavaText(FALSE, <<Decl("Shape", "interface", FALSE)>>),
     JavaText(FALSE, <<Decl("U", "class", TRUE)>>)}

PolyDecls == <<Decl("Shape", "interface", FALSE), Decl("T", "class", TRUE)>>

WellFormedJavaReference == JavaReference(TRUE, FALSE, PolyDecls, FALSE, FALSE, FALSE, TRUE, TRUE)

JavaReferenceTexts ==
    {WellFormedJavaReference,
     NoJavaReference,
     [WellFormedJavaReference EXCEPT !.pkg = TRUE],
     [WellFormedJavaReference EXCEPT !.whileFalse = TRUE],
     [WellFormedJavaReference EXCEPT !.prints = FALSE],
     [WellFormedJavaReference EXCEPT !.usesStdin = TRUE, !.hasMain = TRUE],
     [WellFormedJavaReference EXCEPT !.usesStdin = TRUE],
     [WellFormedJavaReference EXCEPT !.hasMain = TRUE],
     JavaReference(TRUE, FALSE, <<Decl("T", "class", TRUE)>>, FALSE, FALSE, FALSE, TRUE, FALSE),
     JavaReference(TRUE, FALSE, <<Decl("T", "class", TRUE)>>, FALSE, FALSE, FALSE, FALSE, FALSE),
     JavaReference(TRUE, FALSE, <<Decl("T", "class", TRUE)>>, FALSE, TRUE, TRUE, TRUE, FALSE),
     JavaReference(TRUE, FALSE, <<Decl("T", "class", TRUE), Decl("U", "class", TRUE)>>,
                   FALSE, FALSE, FALSE, TRUE, TRUE),
     JavaReference(TRUE, FALSE, <<Decl("T", "class", FALSE), Decl("Shape", "interface", FALSE)>>,
                   FALSE, FALSE, FALSE, TRUE, TRUE),
     JavaReference(TRUE, FALSE, <<Decl("U", "class", TRUE)>>, FALSE, FALSE, FALSE, TRUE, TRUE),
     JavaReference(TRUE, FALSE, <<Decl("Problem1", "class", TRUE)>>, FALSE, FALSE, FALSE, TRUE, TRUE)}

JavaTests(present, decls, junit, brittle, captures, setsStdin, polyTests) ==
    [present |-> present, pkg |-> FALSE, decls |-> decls, junit |-> junit, brittle |-> brittle,
     captures |-> captures, setsStdin |-> setsStdin, polyTests |-> polyTests]

WellFormedJavaTests ==
    JavaTests(TRUE, <<Decl("TTest", "class", TRUE)>>, TRUE, "none", TRUE, FALSE, TRUE)

JavaTestTexts ==
    {WellFormedJavaTests,
     JavaTests(FALSE, <<>>, FALSE, "none", FALSE, FALSE, FALSE),
     [WellFormedJavaTests EXCEPT !.junit = FALSE],
     [WellFormedJavaTests EXCEPT !.brittle = "trimmable"],
     [WellFormedJavaTests EXCEPT !.brittle = "kept"],
     [WellFormedJavaTests EXCEPT !.captures = FALSE],
     [WellFormedJavaTests EXCEPT !.polyTests = FALSE],
     [WellFormedJavaTests EXCEPT !.decls = <<Decl("UTest", "class", TRUE)>>],
     [WellFormedJavaTests EXCEPT !.decls = <<Decl("TTest", "class", FALSE)>>],
     [WellFormedJavaTests EXCEPT !.decls = <<Decl("Other", "class", FALSE)>>]}

ConstraintsTexts ==
    {ConstraintsText(FALSE, "", FALSE)}
    \cup {ConstraintsText(TRUE, core, padded) :
             core \in {"", ConstraintsOf("java"), ConstraintsOf("python")}, padded \in BOOLEAN}

SampleCounts == {0, 1, 2, 8, 12}

\* the difficulty and topic_tag a completion carries of its own; the
\* generator reads neither
CompletionDifficulty == "easy"

CompletionTopicTag == "recursion"

WellFormedJavaOutput ==
    [json |-> TRUE,
     starter_code |-> WellFormedJavaStarter,
     reference_solution |-> WellFormedJavaReference,
     test_suite |-> WellFormedJavaTests,
     constraints |-> ConstraintsText(TRUE, ConstraintsOf("java"), FALSE),
     sample_inputs |-> 2,
     sample_outputs |-> 2,
     difficulty |-> CompletionDifficulty,
     topic_tag |-> CompletionTopicTag]

JavaDeviate(o) ==
    {[o EXCEPT !.json = v] : v \in BOOLEAN}
    \cup {[o EXCEPT !.starter_code = v] : v \in JavaStarterTexts}
    \cup {[o EXCEPT !.reference_solution = v] : v \in JavaReferenceTexts}
    \cup {[o EXCEPT !.test_suite = v] : v \in JavaTestTexts}
    \cup {[o EXCEPT !.constraints = v] : v \in ConstraintsTexts}
    \cup {[o EXCEPT !.sample_inputs = v] : v \in SampleCounts}
    \cup {[o EXCEPT !.sample_outputs = v] : v \in SampleCounts}

RECURSIVE JavaOutputs(_)
JavaOutputs(k) == IF k = 0 THEN {WellFormedJavaOutput}
                  ELSE UNION {JavaDeviate(o) : o \in JavaOutputs(k - 1)}

PythonSource(present, valid, prints) == [present |-> present, valid |-> valid, prints |-> prints]

PythonTests(present, style) == [present |-> present, style |-> style]

PythonStarterTexts ==
    {PythonSource(TRUE, TRUE, FALSE), PythonSource(FALSE, FALSE, FALSE),
     PythonSource(TRUE, FALSE, FALSE)}

PythonReferenceTexts ==
    {PythonSource(TRUE, TRUE, TRUE), PythonSource(TRUE, TRUE, FALSE),
     PythonSource(FALSE, FALSE, FALSE), PythonSource(TRUE, FALSE, TRUE)}

PythonTestTexts ==
    {PythonTests(TRUE, "stdout"), PythonTests(TRUE, "return"), PythonTests(TRUE, "mixed"),
     PythonTests(TRUE, "invalid"), PythonTests(FALSE, "invalid")}

WellFormedPythonOutput ==
    [json |-> TRUE,
     workspace |-> FALSE,
     starter_code |-> PythonSource(TRUE, TRUE, FALSE),
     reference_solution |-> PythonSource(TRUE, TRUE, TRUE),
     test_suite |-> PythonTests(TRUE, "stdout"),
     constraints |-> ConstraintsText(TRUE, ConstraintsOf("python"), FALSE),
     sample_inputs |-> 2,
     sample_outputs |-> 2,
     difficulty |-> CompletionDifficulty,
     topic_tag |-> CompletionTopicTag]

PythonDeviate(o) ==
    {[o EXCEPT !.json = v] : v \in BOOLEAN}
    \cup {[o EXCEPT !.workspace = v] : v \in BOOLEAN}
    \cup {[o EXCEPT !.starter_code = v] : v \in PythonStarterTexts}
    \cup {[o EXCEPT !.reference_solution = v] : v \in PythonReferenceTexts}
    \cup {[o EXCEPT !.test_suite = v] : v \in PythonTestTexts}
    \cup {[o EXCEPT !.constraints = v] : v \in ConstraintsTexts}
    \cup {[o EXCEPT !.sample_inputs = v] : v \in SampleCounts}
    \cup {[o EXCEPT !.sample_outputs = v] : v \in SampleCounts}

RECURSIVE PythonOutputs(_)
PythonOutputs(k) == IF k = 0 THEN {WellFormedPythonOutput}
                    ELSE UNION {PythonDeviate(o) : o \in PythonOutputs(k - 1)}

CppSource(present, valid, prints) ==
    [present |-> present, valid |-> valid, prints |-> prints, signature |-> valid]

\* a source that defines solve(...) in a form the signature pattern does not
\* read, e.g. "std::pair<int,int> solve(int n) {"
CppSourceWithoutSignature(prints) ==
    [present |-> TRUE, valid |-> TRUE, prints |-> prints, signature |-> FALSE]

CppTests(present, style) == [present |-> present, style |-> style]

CppStarterTexts ==
    {CppSource(TRUE, TRUE, FALSE), CppSource(FALSE, FALSE, FALSE), CppSource(TRUE, FALSE, FALSE)}

CppReferenceTexts ==
    {CppSource(TRUE, TRUE, TRUE), CppSource(TRUE, TRUE, FALSE),
     CppSource(FALSE, FALSE, FALSE), CppSource(TRUE, FALSE, TRUE),
     CppSourceWithoutSignature(TRUE)}

CppTestTexts ==
    {CppTests(TRUE, "stdout"), CppTests(TRUE, "return"),
     CppTests(TRUE, "invalid"), CppTests(FALSE, "invalid")}

WellFormedCppOutput ==
    [json |-> TRUE,
     workspace |-> FALSE,
     starter_code |-> CppSource(TRUE, TRUE, FALSE),
     reference_solution |-> CppSource(TRUE, TRUE, TRUE),
     test_suite |-> CppTests(TRUE, "stdout"),
     constraints |-> ConstraintsText(TRUE, ConstraintsOf("cpp"), FALSE),
     sample_inputs |-> 2,
     sample_outputs |-> 2,
     difficulty |-> CompletionDifficulty,
     topic_tag |-> CompletionTopicTag]

CppDeviate(o) ==
    {[o EXCEPT !.json = v] : v \in BOOLEAN}
    \cup {[o EXCEPT !.workspace = v] : v \in BOOLEAN}
    \cup {[o EXCEPT !.starter_code = v] : v \in CppStarterTexts}
    \cup {[o EXCEPT !.reference_solution = v] : v \in CppReferenceTexts}
    \cup {[o EXCEPT !.test_suite = v] : v \in CppTestTexts}
    \cup {[o EXCEPT !.constraints = v] : v \in ConstraintsTexts}
    \cup {[o EXCEPT !.sample_inputs = v] : v \in SampleCounts}
    \cup {[o EXCEPT !.sample_outputs = v] : v \in SampleCounts}

RECURSIVE CppOutputs(_)
CppOutputs(k) == IF k = 0 THEN {WellFormedCppOutput}
                 ELSE UNION {CppDeviate(o) : o \in CppOutputs(k - 1)}

LLMOutputs(language) ==
    CASE language = "java" -> JavaOutputs(MaxDeviations)
      [] language = "cpp" -> CppOutputs(MaxDeviations)
      [] OTHER -> PythonOutputs(MaxDeviations)

\* The completion of the reference repairer: its reference_solution field,
\* with or without whitespace around the source
RepairCompletion(text, padded) == [isString |-> TRUE, core |-> text, padded |-> padded]

NoRepairCompletion == [isString |-> FALSE, core |-> NoJavaReference, padded |-> FALSE]

ReferenceRepairs ==
    {NoRepairCompletion}
    \cup {RepairCompletion(text, padded) : text \in JavaReferenceTexts, padded \in BOOLEAN}

\* answers of repairPythonTestSuite
SuiteRepairs ==
    {[throws |-> TRUE, test_suite |-> PythonTests(FALSE, "invalid")]}
    \cup {[throws |-> FALSE, test_suite |-> t] : t \in {u \in PythonTestTexts : u.present}}

NoRepair == [previousDraft |-> NoDraft]

Slot(index, language, difficulty, topics, style) ==
    [index |-> index, difficulty |-> difficulty, topics |-> topics, language |-> language,
     problem_style |-> style, constraints |-> ConstraintsOf(language),
     test_case_count |-> TestCaseCount]

GeneratorSlots ==
    {Slot(0, language, "hard", <<topic>>, style) :
        language \in {"java", "python", "cpp"}, topic \in TagNames, style \in {"stdout", "return"}}

(***************************************************************************)
(* TestStrengthGate (generation/testStrengthGate.ts)                       *)
(***************************************************************************)
\* the judge requests of buildBaselines, in the order they are judged; the
\* code of a trivial baseline is named by the function that builds it
buildBaselineRequests(draft, slot) ==
    LET style == normalizeProblemStyle(slot.problem_style)
        starter == [id |-> "starter_code", kind |-> "code", code |-> "starter_code",
                    style |-> "", testSuite |-> draft.test_suite]
        trivial(code) == [id |-> "trivial_baseline", kind |-> "code", code |-> code,
                          style |-> style, testSuite |-> draft.test_suite]
    IN  CASE draft.language = "java" ->
                IF "workspace" \in DOMAIN draft
                THEN <<[id |-> "starter_workspace", kind |-> "files", code |-> "workspace",
                        style |-> "", testSuite |-> draft.test_suite]>>
                ELSE <<starter>>
          [] draft.language = "python" -> <<starter, trivial("buildPythonBaseline")>>
          [] draft.language = "cpp" ->
                IF extractCppSolveSignature(draft.reference_solution) # "null"
                THEN <<starter, trivial("buildCppBaselineFromSignature")>>
                ELSE <<starter>>
          [] OTHER -> <<starter, trivial("buildSqlBaselineQuery")>>

\* buildBaselines: the ids of the baselines, in the order they are judged
buildBaselines(draft, slot) ==
    Bind(buildBaselineRequests(draft, slot),
         LAMBDA requests : [i \in 1..Len(requests) |-> requests[i].id])

NewGate(baselines) == [baselines |-> baselines, log |-> <<>>, outcome |-> "running", baselineId |-> ""]

NoGate == [baselines |-> <<>>, log |-> <<>>, outcome |-> "none", baselineId |-> ""]

\* a mutation of runTestStrengthGateStep: only the starter baseline's verdict counts
runTestStrengthGateStepStarterOnly(g, success) ==
    LET id == g.baselines[Len(g.log) + 1]
        log == Append(g.log, [baselineId |-> id, success |-> success])
        rejects == success /\ id = "starter_code"
    IN  [g EXCEPT !.log = log,
                  !.outcome = IF rejects THEN "rejected"
                              ELSE IF Len(log) = Len(g.baselines) THEN "accepted" ELSE "running",
                  !.baselineId = IF rejects THEN id ELSE ""]

\* a mutation of runTestStrengthGateStep: a passing baseline is noted and the
\* loop goes on to the next baseline
runTestStrengthGateStepToTheEnd(g, success) ==
    LET id == g.baselines[Len(g.log) + 1]
        log == Append(g.log, [baselineId |-> id, success |-> success])
        passed == \E i \in 1..Len(log) : log[i].success
    IN  [g EXCEPT !.log = log,
                  !.outcome = IF Len(log) < Len(g.baselines) THEN "running"
                              ELSE IF passed THEN "rejected" ELSE "accepted",
                  !.baselineId = IF passed /\ Len(log) = Len(g.baselines)
                                 THEN log[CHOOSE i \in 1..Len(log) : log[i].success].baselineId
                                 ELSE ""]

\* One iteration of the loop of runTestStrengthGate: the judge's verdict on the
\* next baseline.  A passing baseline throws TestStrengthGateError with its id;
\* the gate returns when the last baseline has failed.
runTestStrengthGateStep(g, success) ==
    LET id == g.baselines[Len(g.log) + 1]
        log == Append(g.log, [baselineId |-> id, success |-> success])
    IN  [g EXCEPT !.log = log,
                  !.outcome = IF success THEN "rejected"
                              ELSE IF Len(log) = Len(g.baselines) THEN "accepted" ELSE "running",
                  !.baselineId = IF success THEN id ELSE ""]

(***************************************************************************)
(* GenerationPipeline (generateProblemsFromPlan) and the session service   *)
(* (generateFromSession).                                                  *)
(***************************************************************************)
MaxAttemptsPerSlot == 3

softFallbackEnabled == TRUE

\* a mutation of AttemptsRemain: one attempt more than the budget
AttemptsRemainPlusOne(n) == n <= MaxAttemptsPerSlot

AttemptsRemain(n) == n < MaxAttemptsPerSlot

\* a mutation of Retriable: a contract failure ends the slot at once
RetriableExceptContract(kind) == kind \in {"execution", "quality"}

\* the retry table: contract, execution and quality failures are retried
\* while attempts remain, a fatal failure never is
Retriable(kind) == kind \in {"contract", "execution", "quality"}

\* a mutation of ToExternal: the draft is handed out as it is
ToExternalKeepingReference(draft) == draft

\* GeneratedProblemDraftExternal: the draft without its reference artifacts
ToExternal(draft) ==
    [f \in (DOMAIN draft) \ {"reference_solution", "reference_workspace"} |-> draft[f]]

ExternalProblems(drafts) == [k \in 1..Len(drafts) |-> ToExternal(drafts[k])]

\* a mutation of IsLastSlot: the run is finished after any slot
IsLastSlotAny(position, slots) == position >= 1

IsLastSlot(position, slots) == position = Len(slots)

\* a mutation of SoftFallbackAllowed: the explicit request for hard is ignored
SoftFallbackAllowedIgnoringIntent(sess, slot, fail, log) ==
    /\ softFallbackEnabled
    /\ slot.difficulty = "hard"
    /\ fail.kind = "quality"
    /\ \A k \in 1..Len(log) : log[k].outcome = "quality"

\* the soft-fallback policy: a hard slot whose attempts all failed on quality
\* may be downgraded, unless the intent explicitly asked for hard
SoftFallbackAllowed(sess, slot, fail, log) ==
    /\ softFallbackEnabled
    /\ ~sess.explicitHardRequested
    /\ slot.difficulty = "hard"
    /\ fail.kind = "quality"
    /\ \A k \in 1..Len(log) : log[k].outcome = "quality"

\* the difficulty_plan with one hard problem turned into a medium one
DowngradeHard(dp) ==
    LET k == FirstIndex(dp, LAMBDA e : e.difficulty = "hard")
        less == IF dp[k].count > 1 THEN [dp EXCEPT ![k].count = @ - 1]
                ELSE SubSeq(dp, 1, k - 1) \o SubSeq(dp, k + 1, Len(dp))
        m == FirstIndex(less, LAMBDA e : e.difficulty = "medium")
    IN  IF m # 0 THEN [less EXCEPT ![m].count = @ + 1]
        ELSE Append(less, [difficulty |-> "medium", count |-> 1])

NoFailure == [kind |-> "none", slotIndex |-> 0, obligationId |-> "", attempts |-> 0]

NoCalls == [generation |-> 0, referenceRepair |-> 0, suiteRepair |-> 0, validate |-> 0, judge |-> 0]

NoActivity == [saved |-> FALSE, problems |-> <<>>]

\* The completions and verdicts the pipeline runs are checked against.
PipelineJavaOutputs ==
    {WellFormedJavaOutput,
     [WellFormedJavaOutput EXCEPT !.constraints = ConstraintsText(TRUE, ConstraintsOf("python"), FALSE)],
     [WellFormedJavaOutput EXCEPT !.reference_solution =
         JavaReference(TRUE, FALSE, <<Decl("T", "class", TRUE)>>, FALSE, FALSE, FALSE, TRUE, FALSE)],
     [WellFormedJavaOutput EXCEPT !.test_suite.decls = <<Decl("UTest", "class", TRUE)>>]}

PipelinePythonOutputs ==
    {WellFormedPythonOutput,
     [WellFormedPythonOutput EXCEPT !.constraints = ConstraintsText(TRUE, ConstraintsOf("java"), TRUE)],
     [WellFormedPythonOutput EXCEPT !.test_suite = PythonTests(TRUE, "invalid")]}

PipelineOutputs(language) ==
    IF language = "java" THEN PipelineJavaOutputs ELSE PipelinePythonOutputs

PipelineReferenceRepairs ==
    {RepairCompletion(text, FALSE) :
        text \in {WellFormedJavaReference,
                  [WellFormedJavaReference EXCEPT !.hasMain = TRUE],
                  JavaReference(TRUE, FALSE, <<Decl("T", "class", TRUE)>>,
                                FALSE, FALSE, FALSE, FALSE, FALSE)}}

PipelineSuiteRepairs ==
    {[throws |-> FALSE, test_suite |-> PythonTests(TRUE, "stdout")],
     [throws |-> FALSE, test_suite |-> PythonTests(TRUE, "invalid")]}

PipelinePlans ==
    {<<[difficulty |-> "hard", count |-> 1]>>,
     <<[difficulty |-> "easy", count |-> 1]>>,
     <<[difficulty |-> "hard", count |-> 1], [difficulty |-> "easy", count |-> 1]>>}

PipelineSpecs ==
    {[language |-> lang, problem_count |-> SumCounts(dp), difficulty_plan |-> dp,
      topic_tags |-> IF lang = "java" THEN <<"polymorphism">> ELSE <<"arrays">>,
      problem_style |-> "stdout", constraints |-> ConstraintsOf(lang),
      test_case_count |-> TestCaseCount] :
        lang \in {"java", "python"}, dp \in PipelinePlans}

HasHard(spec) == \E k \in 1..Len(spec.difficulty_plan) : spec.difficulty_plan[k].difficulty = "hard"

VARIABLES
    planSpec, planPolicy, planOut,
    genSlot, genRaw, genOut, repairReply, repairOut,
    session, activity, returned, pc, plan, cur, attempt, repair, draft, slotLog, gate,
    problems, failure, events, calls,
    rwInput, rwPasses,
    scSource, scEdit, scText,
    callArgs, callResults,
    desktop, server

varsPlan == <<planSpec, planPolicy, planOut>>

varsGen == <<genSlot, genRaw, genOut, repairReply, repairOut>>

varsRun == <<session, activity, returned, pc, plan, cur, attempt, repair, draft, slotLog, gate,
             problems, failure, events, calls>>

varsRewrite == <<rwInput, rwPasses>>

varsScan == <<scSource, scEdit, scText>>

\* one function of the generator called on drawn arguments: the arguments and
\* the results of the calls made so far
varsCall == <<callArgs, callResults>>

vars == <<planSpec, planPolicy, planOut, genSlot, genRaw, genOut, repairReply, repairOut,
          session, activity, returned, pc, plan, cur, attempt, repair, draft, slotLog, gate,
          problems, failure, events, calls, rwInput, rwPasses,
          scSource, scEdit, scText, callArgs, callResults, desktop, server>>

PendingPlan == [status |-> "pending", error |-> "", slots |-> <<>>]

PendingOut == [meta |-> [llmOutputHash |-> NoDraft], path |-> "pending"] @@ PlainFailure("")

NoSession == [state |-> "NONE", spec |-> [difficulty_plan |-> <<>>],
              explicitHardRequested |-> FALSE, intentTrace |-> <<>>]

\* the variables of the runs a specification does not exercise
IdlePlan == planSpec = [difficulty_plan |-> <<>>] /\ planPolicy = NoPolicy /\ planOut = PendingPlan

IdleGen ==
    /\ genSlot = Slot(0, "java", "easy", <<"arrays">>, "stdout")
    /\ genRaw = WellFormedJavaOutput
    /\ genOut = PendingOut
    /\ repairReply = NoRepairCompletion
    /\ repairOut = PendingOut

IdleRun ==
    /\ session = NoSession
    /\ activity = NoActivity
    /\ returned = <<>>
    /\ pc = "none"
    /\ plan = <<>>
    /\ cur = 0
    /\ attempt = 0
    /\ repair = NoRepair
    /\ draft = NoDraft
    /\ slotLog = <<>>
    /\ gate = NoGate
    /\ problems = <<>>
    /\ failure = NoFailure
    /\ events = {}
    /\ calls = NoCalls

NoRewriteInput == [kind |-> "none", source |-> <<>>, name |-> NoName]

IdleRewrite == rwInput = NoRewriteInput /\ rwPasses = <<>>

NoEdit == [at |-> 0, ins |-> <<>>]

IdleScan == scSource = <<>> /\ scEdit = NoEdit /\ scText = <<>>

NoArgs == [function |-> "none"]

IdleCall == callArgs = NoArgs /\ callResults = <<>>

varsApp == <<desktop, server>>

\* the desktop shell and the HTTP server are not running
NotRunning == [running |-> FALSE]

IdleApp == desktop = NotRunning /\ server = NotRunning

(***************************************************************************)
(* Planner alone: deriveProblemPlan applied to an ActivitySpec.            *)
(***************************************************************************)
InitPlan ==
    /\ \E dp \in SeqsUpTo(PlanEntries, MaxPlanEntries), tags \in SeqsUpTo(TagNames, MaxTags) :
          \E n \in ProblemCounts(dp), policy \in Policies(dp) :
             /\ planSpec = PlannerSpec(dp, tags, n)
             /\ planPolicy = policy
    /\ planOut = PendingPlan
    /\ IdleGen
    /\ IdleRun
    /\ IdleRewrite
    /\ IdleScan
    /\ IdleCall
    /\ IdleApp

DerivePlan ==
    /\ planOut.status = "pending"
    /\ planOut' = deriveProblemPlanWith(planSpec, FocusOf(planPolicy))
    /\ UNCHANGED <<planSpec, planPolicy, varsGen, varsRun, varsRewrite, varsScan, varsCall, varsApp>>

NextPlan == DerivePlan

SpecPlan == InitPlan /\ [][NextPlan]_vars

(***************************************************************************)
(* PerSlotGenerator alone: one generateSingleProblem invocation on an LLM  *)
(* completion, then, for a returned Java draft, one invocation in repair   *)
(* mode with that draft as previousDraft.                                  *)
(***************************************************************************)
InitGen ==
    /\ genSlot \in GeneratorSlots
    /\ genRaw \in LLMOutputs(genSlot.language)
    /\ genOut = PendingOut
    /\ repairReply = NoRepairCompletion
    /\ repairOut = PendingOut
    /\ IdlePlan
    /\ IdleRun
    /\ IdleRewrite
    /\ IdleScan
    /\ IdleCall
    /\ IdleApp

Generate ==
    /\ genOut.path = "pending"
    /\ \E suiteRepair \in SuiteRepairs, judgeStderr \in BOOLEAN :
          genOut' = generateSingleProblem(genSlot, NoRepair,
                        [raw |-> genRaw, suiteRepair |-> suiteRepair,
                         judgeStderr |-> judgeStderr, repaired |-> NoRepairCompletion, failingCall |-> "none"])
    /\ UNCHANGED <<genSlot, genRaw, repairReply, repairOut, varsPlan, varsRun, varsRewrite, varsScan, varsCall, varsApp>>

RepairReference ==
    /\ genOut.path = "generate"
    /\ genOut.ok
    /\ genSlot.language = "java"
    /\ repairOut.path = "pending"
    /\ \E repaired \in ReferenceRepairs :
          /\ repairReply' = repaired
          /\ repairOut' = generateSingleProblem(genSlot, [previousDraft |-> genOut.draft],
                           [raw |-> genRaw, suiteRepair |-> [throws |-> TRUE,
                                                            test_suite |-> PythonTests(FALSE, "invalid")],
                            judgeStderr |-> FALSE, repaired |-> repaired, failingCall |-> "none"])
    /\ UNCHANGED <<genSlot, genRaw, genOut, varsPlan, varsRun, varsRewrite, varsScan, varsCall, varsApp>>

NextGen == Generate \/ RepairReference

SpecGen == InitGen /\ [][NextGen]_vars

(***************************************************************************)
(* The Java rewrites alone (utils/javaRewrite.ts and the string-literal    *)
(* sanitiser of the per-slot generator): one rewrite applied to a drawn    *)
(* input, then applied again to its own output.                            *)
(***************************************************************************)
RewriteNames == {"T", "U"}

RewriteDecls == {Decl(name, keyword, pub) :
                    name \in RewriteNames, keyword \in {"class", "interface"}, pub \in BOOLEAN}

JavaSourceOf(decls) == [present |-> TRUE, pkg |-> FALSE, decls |-> decls]

\* keepName / expectedName: absent, a declared name, or a name no type has
RewriteArgs == {NoName, "T", "U", "V"}

SourceInput(source, name) == [kind |-> "source", source |-> source, name |-> name]

SuiteInput(text) == [kind |-> "suite", source |-> text, name |-> NoName]

applyRewrite(op, source, name) ==
    CASE op = "demote" -> demoteExtraTopLevelPublicTypes(source, name)
      [] op = "promote" -> promoteOneTopLevelTypeToPublic(source, name)
      [] op = "rename" -> rewriteJavaTopLevelPublicClassName(source, name)
      [] op = "sanitize" -> [source |-> sanitizeText(source).testSuite,
                             changed |-> sanitizeText(source).changed]

Pass(op, result) == [op |-> op, source |-> result.source, changed |-> result.changed]

InitRewrite ==
    /\ \/ \E decls \in {<<>>} \cup SeqsUpTo(RewriteDecls, MaxDecls), name \in RewriteArgs :
             rwInput = SourceInput(JavaSourceOf(decls), name)
       \/ \E text \in {<<>>} \cup SeqsUpTo(Chars, MaxTextLen) :
             rwInput = SuiteInput(text)
    /\ rwPasses = <<>>
    /\ IdlePlan
    /\ IdleGen
    /\ IdleRun
    /\ IdleScan
    /\ IdleCall
    /\ IdleApp

Demote ==
    /\ rwInput.kind = "source"
    /\ rwPasses = <<>>
    /\ rwPasses' = <<Pass("demote", applyRewrite("demote", rwInput.source, rwInput.name))>>
    /\ UNCHANGED <<rwInput, varsPlan, varsGen, varsRun, varsScan, varsCall, varsApp>>

Promote ==
    /\ rwInput.kind = "source"
    /\ rwPasses = <<>>
    /\ rwPasses' = <<Pass("promote", applyRewrite("promote", rwInput.source, rwInput.name))>>
    /\ UNCHANGED <<rwInput, varsPlan, varsGen, varsRun, varsScan, varsCall, varsApp>>

Rename ==
    /\ rwInput.kind = "source"
    /\ rwPasses = <<>>
    /\ rwPasses' = <<Pass("rename", applyRewrite("rename", rwInput.source, rwInput.name))>>
    /\ UNCHANGED <<rwInput, varsPlan, varsGen, varsRun, varsScan, varsCall, varsApp>>

Sanitize ==
    /\ rwInput.kind = "suite"
    /\ rwPasses = <<>>
    /\ rwPasses' = <<Pass("sanitize", applyRewrite("sanitize", rwInput.source, NoName))>>
    /\ UNCHANGED <<rwInput, varsPlan, varsGen, varsRun, varsScan, varsCall, varsApp>>

\* the same rewrite, with the same argument, on the output of the first pass
Reapply ==
    /\ Len(rwPasses) = 1
    /\ rwPasses' = Append(rwPasses, Pass(rwPasses[1].op,
                              applyRewrite(rwPasses[1].op, rwPasses[1].source, rwInput.name)))
    /\ UNCHANGED <<rwInput, varsPlan, varsGen, varsRun, varsScan, varsCall, varsApp>>

NextRewrite == Demote \/ Promote \/ Rename \/ Sanitize \/ Reapply

SpecRewrite == InitRewrite /\ [][NextRewrite]_vars

(***************************************************************************)
(* A generation run: generateFromSession on a READY session drives         *)
(* generateProblemsFromPlan over the plan, slot by slot and attempt by     *)
(* attempt.  Each action is the code between two awaits: the call of       *)
(* generateSingleProblem, the reference validation, one judge call of the  *)
(* gate, and what the session service does with the pipeline's result.     *)
(***************************************************************************)
InitRun ==
    /\ \E spec \in PipelineSpecs, explicit \in BOOLEAN :
          /\ explicit => HasHard(spec)
          /\ session = [state |-> "READY", spec |-> spec,
                        explicitHardRequested |-> explicit, intentTrace |-> <<>>]
    /\ activity = NoActivity
    /\ returned = <<>>
    /\ pc = "idle"
    /\ plan = <<>>
    /\ cur = 0
    /\ attempt = 0
    /\ repair = NoRepair
    /\ draft = NoDraft
    /\ slotLog = <<>>
    /\ gate = NoGate
    /\ problems = <<>>
    /\ failure = NoFailure
    /\ events = {}
    /\ calls = NoCalls
    /\ IdlePlan
    /\ IdleGen
    /\ IdleRewrite
    /\ IdleScan
    /\ IdleCall
    /\ IdleApp

CurrentSlot == plan[cur]

\* generateFromSession: derive the plan and enter the first slot
StartGeneration ==
    /\ pc = "idle"
    /\ session.state = "READY"
    /\ \E derived \in {deriveProblemPlan(session.spec)} :
           IF derived.status = "returned"
           THEN /\ plan' = derived.slots
                /\ cur' = 1
                /\ attempt' = 1
                /\ pc' = "generate"
                /\ failure' = failure
           ELSE /\ pc' = "rejected"
                /\ failure' = [NoFailure EXCEPT !.kind = "fatal"]
                /\ UNCHANGED <<plan, cur, attempt>>
    /\ events' = events \cup {"generation_started"}
    /\ UNCHANGED <<session, activity, returned, repair, draft, slotLog, gate, problems, calls,
                   varsPlan, varsGen, varsRewrite, varsScan, varsCall, varsApp>>

\* a mutation of AttemptFailed: the failure is logged and the attempt goes on
\* with its next stage
AttemptFailedGoesOn(kind, obligationId, nextRepair, log) ==
    /\ slotLog' = log
    /\ pc' = IF pc = "generate" THEN "validate" ELSE "gate"
    /\ UNCHANGED <<draft, attempt, repair, failure>>

\* the catch block of the attempt loop: retry while the failure is retriable
\* and attempts remain, else reject with GenerationSlotFailureError
AttemptFailed(kind, obligationId, nextRepair, log) ==
    /\ slotLog' = log
    /\ draft' = NoDraft
    /\ IF Retriable(kind) /\ AttemptsRemain(attempt)
       THEN /\ attempt' = attempt + 1
            /\ repair' = nextRepair
            /\ pc' = "generate"
            /\ failure' = failure
       ELSE /\ pc' = "rejected"
            /\ failure' = [kind |-> kind, slotIndex |-> CurrentSlot.index,
                           obligationId |-> obligationId, attempts |-> attempt]
            /\ UNCHANGED <<attempt, repair>>

\* the kind the pipeline gives the outcome of generateSingleProblem: a
\* GenerationContractError is a contract failure, any other error is fatal
attemptKind(res) == IF res.ok THEN "pending" ELSE IF res.contract THEN "contract" ELSE "fatal"

GenerateAttempt ==
    /\ pc = "generate"
    /\ \E raw \in PipelineOutputs(CurrentSlot.language),
          suiteRepair \in PipelineSuiteRepairs,
          repaired \in PipelineReferenceRepairs :
          \E res \in {generateSingleProblem(CurrentSlot, repair,
                          [raw |-> raw, suiteRepair |-> suiteRepair,
                           judgeStderr |-> FALSE, repaired |-> repaired, failingCall |-> "none"])} :
          LET hash == res.meta.llmOutputHash
              repeated == \E k \in 1..Len(slotLog) : slotLog[k].hash = hash
              kind == attemptKind(res)
              obligationId == IF ~res.ok /\ res.contract /\ repeated
                              THEN "retry.substantive_change_required"
                              ELSE res.obligationId
              entry == [path |-> res.path, hash |-> hash, outcome |-> kind,
                        obligationId |-> obligationId, message |-> res.message,
                        repeated |-> repeated, checked |-> TRUE,
                        validated |-> FALSE, judged |-> <<>>]
              log == Append(slotLog, entry)
          IN  /\ calls' = [calls EXCEPT
                              !.generation = @ + (IF res.path = "generate" THEN 1 ELSE 0),
                              !.referenceRepair = @ + (IF res.path = "generate" THEN 0 ELSE 1),
                              !.suiteRepair = @ + res.suiteRepairCalls]
              /\ IF res.ok
                 THEN /\ draft' = res.draft
                      /\ pc' = "validate"
                      /\ slotLog' = log
                      /\ UNCHANGED <<attempt, repair, failure>>
                 ELSE AttemptFailed(kind, obligationId, NoRepair, log)
    /\ UNCHANGED <<session, activity, returned, plan, cur, gate, problems, events,
                   varsPlan, varsGen, varsRewrite, varsScan, varsCall, varsApp>>

\* validateReferenceSolution: the judge runs the reference against the suite
ValidateReference ==
    /\ pc = "validate"
    /\ \E passed \in BOOLEAN :
          LET last == Len(slotLog)
              log == [slotLog EXCEPT ![last].validated = TRUE,
                                     ![last].outcome = IF passed THEN "pending" ELSE "execution"]
          IN  IF passed
              THEN /\ pc' = "gate"
                   /\ gate' = NewGate(buildBaselines(draft, CurrentSlot))
                   /\ slotLog' = log
                   /\ UNCHANGED <<attempt, repair, failure, draft>>
              ELSE /\ gate' = gate
                   /\ AttemptFailed("execution", "", [previousDraft |-> draft], log)
    /\ calls' = [calls EXCEPT !.validate = @ + 1]
    /\ UNCHANGED <<session, activity, returned, plan, cur, problems, events, varsPlan, varsGen, varsRewrite, varsScan, varsCall, varsApp>>

\* runTestStrengthGate: one judge call; the slot is completed when the gate returns
GateJudge ==
    /\ pc = "gate"
    /\ gate.outcome = "running"
    /\ \E success \in BOOLEAN :
          \E g \in {runTestStrengthGateStep(gate, success)} :
          LET last == Len(slotLog)
          IN  /\ gate' = g
              /\ CASE g.outcome = "rejected" ->
                        /\ AttemptFailed("quality", "tests.reject_baselines", NoRepair,
                               [slotLog EXCEPT ![last].judged = g.log,
                                               ![last].outcome = "quality",
                                               ![last].obligationId = "tests.reject_baselines"])
                        /\ UNCHANGED <<problems, cur>>
                   [] g.outcome = "accepted" ->
                        /\ problems' = Append(problems, draft)
                        /\ draft' = NoDraft
                        /\ failure' = failure
                        /\ repair' = NoRepair
                        /\ IF IsLastSlot(cur, plan)
                           THEN /\ pc' = "completed"
                                /\ slotLog' = [slotLog EXCEPT ![last].judged = g.log,
                                                              ![last].outcome = "ok"]
                                /\ UNCHANGED <<cur, attempt>>
                           ELSE /\ pc' = "generate"
                                /\ cur' = cur + 1
                                /\ attempt' = 1
                                /\ slotLog' = <<>>
                   [] OTHER ->
                        /\ slotLog' = [slotLog EXCEPT ![last].judged = g.log]
                        /\ UNCHANGED <<problems, cur, draft, failure, repair, pc, attempt>>
    /\ calls' = IF pc' = "generate" /\ cur' # cur THEN NoCalls
                ELSE [calls EXCEPT !.judge = @ + 1]
    /\ UNCHANGED <<session, activity, returned, plan, events, varsPlan, varsGen, varsRewrite, varsScan, varsCall, varsApp>>

\* generateFromSession after the pipeline returned: persist the activity
SaveActivity ==
    /\ pc = "completed"
    /\ returned' = ExternalProblems(problems)
    /\ activity' = [saved |-> TRUE, problems |-> ExternalProblems(problems)]
    /\ session' = [session EXCEPT !.state = "SAVED"]
    /\ pc' = "saved"
    /\ events' = events \cup {"generation_completed"}
    /\ UNCHANGED <<plan, cur, attempt, repair, draft, slotLog, gate, problems, failure, calls,
                   varsPlan, varsGen, varsRewrite, varsScan, varsCall, varsApp>>

\* the soft fallback: the rejected hard slot is downgraded to medium and
\* re-planned alone; the spec's recorded difficulty is patched and the patch is
\* recorded in the intent trace and as a progress event.  The variable failure
\* keeps the last GenerationSlotFailureError of the run.
ApplySoftFallback ==
    /\ pc = "rejected"
    /\ cur >= 1
    /\ SoftFallbackAllowed(session, CurrentSlot, failure, slotLog)
    /\ session' = [session EXCEPT !.spec.difficulty_plan = DowngradeHard(@),
                                  !.intentTrace = Append(@, "generation_soft_fallback")]
    /\ plan' = [plan EXCEPT ![cur].difficulty = "medium"]
    /\ events' = events \cup {"generation_soft_fallback_applied"}
    /\ attempt' = 1
    /\ slotLog' = <<>>
    /\ calls' = NoCalls
    /\ repair' = NoRepair
    /\ gate' = NoGate
    /\ pc' = "generate"
    /\ UNCHANGED <<activity, returned, cur, draft, problems, failure, varsPlan, varsGen, varsRewrite, varsScan, varsCall, varsApp>>

\* the failure surfaces: earlier slots' problems are discarded, nothing is saved
SurfaceFailure ==
    /\ pc = "rejected"
    /\ ~(cur >= 1 /\ SoftFallbackAllowed(session, CurrentSlot, failure, slotLog))
    /\ pc' = "failed"
    /\ problems' = <<>>
    /\ events' = events \cup {"generation_failed"}
    /\ UNCHANGED <<session, activity, returned, plan, cur, attempt, repair, draft, slotLog, gate,
                   failure, calls, varsPlan, varsGen, varsRewrite, varsScan, varsCall, varsApp>>

Next ==
    \/ StartGeneration
    \/ GenerateAttempt
    \/ ValidateReference
    \/ GateJudge
    \/ SaveActivity
    \/ ApplySoftFallback
    \/ SurfaceFailure

Spec == InitRun /\ [][Next]_vars

(***************************************************************************)
(* Properties of a generation run (Spec).                                  *)
(***************************************************************************)
SomeBaselinePassed(verdicts) == \E k \in 1..Len(verdicts) : verdicts[k].success

\* C1: the test-strength gate accepts a draft only when every baseline was
\* judged and every judge call returned success = false; a baseline whose
\* judge call returns success = true rejects the draft with that baseline's
\* id, and the pipeline records the attempt as a quality failure of the
\* obligation tests.reject_baselines.
C1_GateAcceptsOnlyFailingBaselines ==
    /\ gate.outcome = "accepted" =>
          /\ Len(gate.log) = Len(gate.baselines)
          /\ \A k \in 1..Len(gate.log) :
                gate.log[k].baselineId = gate.baselines[k] /\ ~gate.log[k].success
    /\ SomeBaselinePassed(gate.log) =>
          /\ gate.outcome = "rejected"
          /\ gate.log[Len(gate.log)].success
          /\ gate.baselineId = gate.log[Len(gate.log)].baselineId
    /\ \A k \in 1..Len(slotLog) :
          /\ SomeBaselinePassed(slotLog[k].judged) =>
                slotLog[k].outcome = "quality" /\ slotLog[k].obligationId = "tests.reject_baselines"
          /\ slotLog[k].outcome = "ok" =>
                slotLog[k].judged # <<>> /\ ~SomeBaselinePassed(slotLog[k].judged)
          /\ slotLog[k].outcome = "quality" => SomeBaselinePassed(slotLog[k].judged)

\* a Python draft is accepted after both of its baselines failed
C1_Witness ==
    /\ gate.outcome = "accepted"
    /\ gate.baselines = <<"starter_code", "trivial_baseline">>
    /\ Len(gate.log) = 2
    /\ pc = "completed"

AllQuality(log) == \A k \in 1..Len(log) : log[k].validated /\ log[k].outcome = "quality"

\* C2: a slot gets at most maxAttemptsPerSlot = 3 generation attempts.  When
\* every attempt of the slot passes reference validation and is rejected by
\* the gate, the third rejection ends the run of generateProblemsFromPlan
\* with a GenerationSlotFailureError of kind quality; before the third, the
\* pipeline goes on to the next attempt.
C2_ThreeAttemptsThenQualityFailure ==
    /\ Len(slotLog) <= MaxAttemptsPerSlot
    /\ attempt <= MaxAttemptsPerSlot
    /\ calls.generation + calls.referenceRepair = Len(slotLog)
    /\ (Len(slotLog) = MaxAttemptsPerSlot /\ AllQuality(slotLog)) =>
          /\ pc \in {"rejected", "failed"}
          /\ failure.kind = "quality"
          /\ failure.slotIndex = CurrentSlot.index
          /\ failure.attempts = MaxAttemptsPerSlot
          /\ calls.generation = MaxAttemptsPerSlot
          /\ calls.validate = MaxAttemptsPerSlot
    /\ (slotLog # <<>> /\ Len(slotLog) < MaxAttemptsPerSlot /\ AllQuality(slotLog)) =>
          /\ pc = "generate"
          /\ attempt = Len(slotLog) + 1

\* the run is rejected after three validated attempts that the gate refused
C2_Witness ==
    /\ pc = "rejected"
    /\ Len(slotLog) = 3
    /\ AllQuality(slotLog)
    /\ failure.kind = "quality"
    /\ calls.generation = 3

\* C3: a contract failure of the generator on an attempt before the last is
\* followed by a further attempt of the same slot; a valid draft on that
\* attempt completes the slot; and the generation LLM is called once per
\* attempt (the test-suite repair call is counted apart).
C3_ContractFailureRetried ==
    /\ \A k \in 1..Len(slotLog) :
          (slotLog[k].outcome = "contract" /\ k < MaxAttemptsPerSlot) =>
             \/ k < Len(slotLog)
             \/ pc = "generate" /\ attempt = k + 1
    /\ (slotLog # <<>> /\ slotLog[Len(slotLog)].outcome = "ok") =>
          /\ pc \in {"completed", "saved"}
          /\ Len(problems) = Len(plan)
    /\ (\A k \in 1..Len(slotLog) : slotLog[k].path = "generate") =>
          calls.generation = Len(slotLog)

\* attempt 1 fails on "Invalid constraints", attempt 2 is valid: two LLM calls
C3_Witness ==
    /\ Len(slotLog) = 2
    /\ slotLog[1].outcome = "contract"
    /\ slotLog[1].message = "Invalid constraints"
    /\ slotLog[2].outcome = "ok"
    /\ calls.generation = 2
    /\ pc = "saved"

HasReferenceArtifacts(problem) ==
    "reference_solution" \in DOMAIN problem \/ "reference_workspace" \in DOMAIN problem

\* C4: no problem returned by generateFromSession and no problem of the
\* persisted activity carries reference_solution or reference_workspace.
C4_NoReferenceArtifactsPersisted ==
    /\ \A k \in 1..Len(returned) : ~HasReferenceArtifacts(returned[k])
    /\ \A k \in 1..Len(activity.problems) : ~HasReferenceArtifacts(activity.problems[k])

\* a run of two problems was saved, from drafts that did hold a reference solution
C4_Witness ==
    /\ pc = "saved"
    /\ Len(returned) = 2
    /\ Len(activity.problems) = 2
    /\ \A k \in 1..Len(problems) : HasReferenceArtifacts(problems[k])

\* C5: when the intent explicitly requested hard, no soft fallback is ever
\* applied: no soft-fallback event or trace entry is recorded, the session
\* spec's difficulty_plan keeps its hard entry and the plan keeps its
\* difficulties; a hard slot that exhausts its attempts on quality failures
\* fails the run, and the session stays READY with nothing saved.
C5_ExplicitHardNeverDowngraded ==
    session.explicitHardRequested =>
       /\ "generation_soft_fallback_applied" \notin events
       /\ ~Contains(session.intentTrace, "generation_soft_fallback")
       /\ HasHard(session.spec)
       /\ plan # <<>> => plan = deriveProblemPlan(session.spec).slots
       /\ failure.kind # "none" =>
             /\ pc \in {"rejected", "failed"}
             /\ session.state = "READY"
             /\ activity = NoActivity

\* an explicitly hard run failed on its hard slot after three quality failures
C5_Witness ==
    /\ session.explicitHardRequested
    /\ pc = "failed"
    /\ CurrentSlot.difficulty = "hard"
    /\ Len(slotLog) = 3
    /\ AllQuality(slotLog)
    /\ failure.kind = "quality"
    /\ "generation_failed" \in events

FallbackApplied == "generation_soft_fallback_applied" \in events

SavedWhole ==
    /\ session.state \in {"READY", "SAVED"}
    /\ session.state = "SAVED" <=> activity.saved
    /\ ~activity.saved => activity = NoActivity /\ returned = <<>>
    /\ activity.saved =>
          /\ pc = "saved"
          /\ Len(problems) = Len(plan)
          /\ Len(activity.problems) = session.spec.problem_count
          /\ \A k \in 1..Len(plan) : activity.problems[k] = ToExternal(problems[k])

C7_SameHashRetryRejectedUnchecked ==
    \A k \in 1..Len(slotLog) :
       slotLog[k].repeated =>
          /\ slotLog[k].outcome = "contract"
          /\ slotLog[k].obligationId = "retry.substantive_change_required"
          /\ ~slotLog[k].checked
          /\ ~slotLog[k].validated
          /\ slotLog[k].judged = <<>>

(***************************************************************************)
(* Properties of generateSingleProblem (SpecGen).                          *)
(***************************************************************************)
\* what each obligation of deriveSlotObligations demands of a Java draft, as
\* the single-file branch of generateSingleProblem enforces it
ObligationHolds(obligationId, slot, d) ==
    LET className == inferPrimaryClassName(d.starter_code, ProblemName(slot.index))
    IN  CASE obligationId = "java.single_public_type_per_unit" ->
                /\ Len(getTopLevelPublicTypeNames(d.starter_code)) = 1
                /\ Len(getTopLevelPublicTypeNames(d.reference_solution)) = 1
          [] obligationId = "java.test_class_matches_target" ->
                inferPrimaryClassName(d.test_suite, TestNameOf(className)) = TestNameOf(className)
          [] obligationId = "java.primary_type_matches_target" ->
                inferPrimaryClassName(d.reference_solution, NoName) = className
          [] obligationId = "java.no_while_false" -> ~hasWhileFalse(d.reference_solution)
          [] obligationId = "java.stdout_solution_prints" -> javaUsesStdout(d.reference_solution)
          [] obligationId = "java.stdout_tests_capture" -> javaTestSuiteCapturesStdout(d.test_suite)
          [] obligationId = "java.structural_topic.polymorphism" ->
                assertJavaStructuralTopicRequirements(slot.topics, d.reference_solution, d.test_suite) = ""
          [] OTHER -> TRUE

MeetsSlotObligations(slot, out) ==
    (out.ok /\ slot.language = "java") =>
       \A id \in deriveSlotObligations(slot) \ {"tests.reject_baselines"} :
          ObligationHolds(id, slot, out.draft)

\* C8 (as stated): every Java draft generateSingleProblem returns, from a
\* fresh generation or from the targeted reference-solution repair, meets
\* every obligation of deriveSlotObligations(slot) but tests.reject_baselines.
C8_ReturnedJavaDraftsMeetObligations ==
    MeetsSlotObligations(genSlot, genOut) /\ MeetsSlotObligations(genSlot, repairOut)

ConstraintsLocked(out) == out.ok => out.draft.constraints = genSlot.constraints

\* the constraints of the completion are a non-empty string other than slot.constraints
ConstraintsDiffer ==
    /\ genRaw.constraints.isString
    /\ genRaw.constraints.core # "" \/ genRaw.constraints.padded
    /\ ~(genRaw.constraints.core = genSlot.constraints /\ ~genRaw.constraints.padded)

\* the same, once boundary whitespace is removed
TrimmedConstraintsDiffer ==
    /\ genRaw.constraints.isString
    /\ genRaw.constraints.core \notin {"", genSlot.constraints}

\* the messages of the checks that precede the comparison of the constraints
ChecksBeforeConstraints ==
    IF genSlot.language = "python"
    THEN {"LLM response is not a valid JSON object.",
          "Python generation does not support workspace problems yet.",
          "Missing reference_solution"}
    ELSE IF genSlot.language = "cpp"
    THEN {"LLM response is not a valid JSON object.",
          "C++ generation does not support workspace problems yet.",
          "Invalid test_suite: missing",
          "Missing reference_solution"}
    ELSE {"LLM response is not a valid JSON object.",
          "starter_code must not declare more than one top-level public type.",
          "starter_code must declare exactly one top-level public type.",
          "Missing reference_solution",
          "reference_solution must not declare more than one top-level public type.",
          "reference_solution must declare exactly one top-level public type.",
          "reference_solution contains package declaration.",
          "reference_solution must not include while(false)",
          "reference_solution class name does not match starter_code class name",
          "stdin reads are not allowed for Java structural-topic slots",
          "stdin-driven Java problems must provide a main entrypoint",
          "stdin-driven Java problems must include at least 8 non-empty sample_inputs",
          "Reference execution produced stderr (stdin sample)",
          "Invalid test_suite: JUnit 5 structure",
          "Invalid test_suite: brittle whitespace expectations",
          "Test suite class name must match",
          "Java topic structure validation failed",
          "reference_solution must write the final answer to stdout",
          "test_suite must capture stdout",
          "test_suite must set deterministic stdin"}

\* the completion follows the prompt in every field but constraints
WellFormedButConstraints ==
    \/ genSlot.language = "python"
       /\ genRaw = [WellFormedPythonOutput EXCEPT !.constraints = genRaw.constraints]
    \/ genSlot.language = "cpp"
       /\ genRaw = [WellFormedCppOutput EXCEPT !.constraints = genRaw.constraints]
    \/ genSlot.language = "java"
       /\ genRaw = [WellFormedJavaOutput EXCEPT !.constraints = genRaw.constraints]

CountOf(d, seq) == Cardinality({k \in 1..Len(seq) : seq[k].difficulty = d})

RECURSIVE PlannedOf(_, _)
PlannedOf(d, dp) ==
    IF dp = <<>> THEN 0
    ELSE (IF Head(dp).difficulty = d THEN Head(dp).count ELSE 0) + PlannedOf(d, Tail(dp))

\* C10: for a valid ActivitySpec deriveProblemPlan returns problem_count
\* slots, the slot at position i having index i; their difficulties run
\* easy, medium, hard without a step back and each difficulty occurs as often
\* as difficulty_plan counts it; constraints, language, problem_style and
\* test_case_count of every slot are the spec's.
C10_PlanIsSortedExpansion ==
    (planOut.status # "pending" /\ ValidActivitySpec(planSpec)) =>
       /\ planOut.status = "returned"
       /\ Len(planOut.slots) = planSpec.problem_count
       /\ \A k \in 1..Len(planOut.slots) :
             /\ planOut.slots[k].index = k - 1
             /\ planOut.slots[k].constraints = planSpec.constraints
             /\ planOut.slots[k].language = planSpec.language
             /\ planOut.slots[k].problem_style = planSpec.problem_style
             /\ planOut.slots[k].test_case_count = planSpec.test_case_count
       /\ \A k \in 1..(Len(planOut.slots) - 1) :
             DifficultyOrder(planOut.slots[k].difficulty)
                <= DifficultyOrder(planOut.slots[k + 1].difficulty)
       /\ \A d \in Difficulties :
             CountOf(d, planOut.slots) = PlannedOf(d, planSpec.difficulty_plan)

\* a plan returned for a difficulty_plan that lists hard before easy before medium
C10_Witness ==
    /\ planOut.status = "returned"
    /\ ValidActivitySpec(planSpec)
    /\ Len(planSpec.difficulty_plan) = 3
    /\ planSpec.difficulty_plan[1].difficulty = "hard"
    /\ planSpec.difficulty_plan[2].difficulty = "easy"
    /\ planSpec.difficulty_plan[3].difficulty = "medium"
    /\ planSpec.difficulty_plan[1].count = 2
    /\ Len(planOut.slots) = planSpec.problem_count

\* the tag list the topics of planOut were assigned from
PlanTags ==
    LET focus == FocusTags(planSpec, FocusOf(planPolicy))
    IN  IF Len(focus) > 0 THEN focus ELSE planSpec.topic_tags

\* C11: in a returned plan the primary topic of slot i is tags[i mod n]; an
\* easy or medium slot has exactly one topic; a hard slot has at most two,
\* the second different from the first; and when n >= 2 and tags[(i+1) mod n]
\* differs from the primary, the second topic of a hard slot is that tag.
C11_RoundRobinTopics ==
    planOut.status = "returned" =>
       \A k \in 1..Len(planOut.slots) :
          LET slot == planOut.slots[k]
              n == Len(PlanTags)
              primary == PlanTags[((k - 1) % n) + 1]
              next == PlanTags[(k % n) + 1]
          IN  /\ Len(slot.topics) \in 1..2
              /\ slot.topics[1] = primary
              /\ slot.difficulty \in {"easy", "medium"} => Len(slot.topics) = 1
              /\ Len(slot.topics) = 2 => slot.topics[2] # slot.topics[1]
              /\ (slot.difficulty = "hard" /\ n >= 2 /\ next # primary) =>
                    Len(slot.topics) = 2 /\ slot.topics[2] = next

\* a plan whose second slot is hard and carries the next tag as secondary
\* topic, behind an easy slot with one topic
C11_Witness ==
    /\ planOut.status = "returned"
    /\ Len(planOut.slots) >= 2
    /\ planOut.slots[1].difficulty = "easy"
    /\ planOut.slots[1].topics = <<"arrays">>
    /\ planOut.slots[2].difficulty = "hard"
    /\ planOut.slots[2].topics = <<"polymorphism", "arrays">>

\* C12 (as stated): a hard slot with at least two tags available gets a
\* secondary topic whenever some tag differs from its primary, namely the
\* first such tag met going forward through the tag cycle, and gets the
\* primary alone exactly when no tag differs.
C12_SecondaryWheneverSomeTagDiffers ==
    planOut.status = "returned" =>
       \A k \in 1..Len(planOut.slots) :
          LET slot == planOut.slots[k]
              n == Len(PlanTags)
              primary == PlanTags[((k - 1) % n) + 1]
              ahead == {j \in 1..n : PlanTags[((k - 1 + j) % n) + 1] # primary}
              first == CHOOSE j \in ahead : \A m \in ahead : j <= m
          IN  (slot.difficulty = "hard" /\ n >= 2) =>
                 /\ ahead = {} <=> Len(slot.topics) = 1
                 /\ ahead # {} =>
                       /\ Len(slot.topics) = 2
                       /\ slot.topics[2] = PlanTags[((k - 1 + first) % n) + 1]

\* the name the claim designates: keepName when it was given and is one of
\* the public types, else the first non-interface public type, else the
\* first declared public type
DesignatedPublicName(pubs, keepName) ==
    IF keepName # NoName /\ \E k \in 1..Len(pubs) : pubs[k].name = keepName THEN keepName
    ELSE IF \E k \in 1..Len(pubs) : pubs[k].keyword # "interface"
         THEN pubs[CHOOSE k \in 1..Len(pubs) :
                      /\ pubs[k].keyword # "interface"
                      /\ \A j \in 1..(k - 1) : pubs[j].keyword = "interface"].name
         ELSE pubs[1].name

\* C13 (as stated): demoteExtraTopLevelPublicTypes returns a source with at
\* most one top-level public type unchanged with changed = false; from a
\* source with more than one it produces a source with exactly one top-level
\* public type: keepName when given and public, else the first non-interface
\* public type, else the first declared.
C13_DemoteLeavesOnePublicType ==
    (Len(rwPasses) >= 1 /\ rwPasses[1].op = "demote") =>
        LET pubs == getTopLevelPublicTypeDecls(rwInput.source)
            after == getTopLevelPublicTypeNames(rwPasses[1].source)
        IN  /\ Len(pubs) <= 1 => (rwPasses[1].source = rwInput.source /\ ~rwPasses[1].changed)
            /\ Len(pubs) > 1 => after = <<DesignatedPublicName(pubs, rwInput.name)>>

\* the statement restricted to sources whose public types have distinct names
C13_DistinctNamesOnly ==
    (Len(rwPasses) >= 1 /\ rwPasses[1].op = "demote") =>
        LET pubs == getTopLevelPublicTypeDecls(rwInput.source)
            after == getTopLevelPublicTypeNames(rwPasses[1].source)
        IN  (\A j, k \in 1..Len(pubs) : pubs[j].name = pubs[k].name => j = k) =>
               /\ Len(pubs) <= 1 => (rwPasses[1].source = rwInput.source /\ ~rwPasses[1].changed)
               /\ Len(pubs) > 1 => after = <<DesignatedPublicName(pubs, rwInput.name)>>

\* C14 (as stated): each Java rewrite (demote, promote, rename the public
\* class, sanitise the boundary whitespace of string literals) is
\* idempotent: applied to its own output it returns that output unchanged
\* with changed = false.
C14_RewritesIdempotent ==
    Len(rwPasses) = 2 =>
        (rwPasses[2].source = rwPasses[1].source /\ ~rwPasses[2].changed)

\* the same statement for the three rewrites of javaRewrite.ts only
C14_DeclRewritesIdempotent ==
    (Len(rwPasses) = 2 /\ rwPasses[1].op # "sanitize") =>
        (rwPasses[2].source = rwPasses[1].source /\ ~rwPasses[2].changed)

\* starter_code and reference_solution of a draft each declare exactly one
\* top-level public type, of one and the same name T, and a public class
\* of the test suite is named TTest
SingleFileNamesAgree(d) ==
    LET starterNames == getTopLevelPublicTypeNames(d.starter_code)
        referenceNames == getTopLevelPublicTypeNames(d.reference_solution)
        testClasses == SelectSeq(getTopLevelPublicTypeDecls(d.test_suite),
                                 LAMBDA decl : decl.keyword = "class")
    IN  /\ Len(starterNames) = 1
        /\ Len(referenceNames) = 1
        /\ referenceNames[1] = starterNames[1]
        /\ \A k \in 1..Len(testClasses) : testClasses[k].name = TestNameOf(starterNames[1])

\* C15 (as stated): in every single-file Java draft generateSingleProblem
\* returns, starter_code and reference_solution each declare exactly one
\* top-level public type, both named T, and the top-level public class of
\* the test suite is TTest.
C15_ReturnedJavaNamesAgree ==
    /\ (genOut.ok /\ genSlot.language = "java") => SingleFileNamesAgree(genOut.draft)
    /\ (repairOut.ok /\ genSlot.language = "java") => SingleFileNamesAgree(repairOut.draft)

StdoutObligations == {"java.stdout_solution_prints", "java.stdout_tests_capture"}

\* C16 (as stated): java.stdout_solution_prints and java.stdout_tests_capture
\* apply to stdout and mixed slots only: generateSingleProblem never rejects
\* the draft of a return-style Java slot for either of them.
C16_ReturnStyleNeverRejectedForStdout ==
    (genSlot.language = "java" /\ normalizeProblemStyle(genSlot.problem_style) = "return") =>
        /\ genOut.obligationId \notin StdoutObligations
        /\ repairOut.obligationId \notin StdoutObligations

\* a return-style Java slot whose completion has a reference that never
\* prints is rejected whatever else the completion holds
C16_ReturnStyleSilentReferenceRejected ==
    (/\ genSlot.language = "java"
     /\ normalizeProblemStyle(genSlot.problem_style) = "return"
     /\ genRaw.reference_solution.present
     /\ ~javaUsesStdout(genRaw.reference_solution)
     /\ genOut.path = "generate") => ~genOut.ok

\* the sample pairs of a returned draft: at least one, as many outputs as
\* inputs, at most MaxSamplePairs
SamplePairsOk(out) ==
    out.ok =>
       /\ out.draft.sample_inputs >= 1
       /\ out.draft.sample_outputs = out.draft.sample_inputs
       /\ out.draft.sample_inputs <= MaxSamplePairs

\* C17: in every draft generateSingleProblem returns, whatever the language
\* and the LLM output, sample_inputs and sample_outputs are non-empty, of
\* the same length, and of length at most 10.
C17_SamplePairsCoerced ==
    SamplePairsOk(genOut) /\ SamplePairsOk(repairOut)

\* drafts returned from a completion with twelve sample pairs, cut to ten,
\* and from a completion with no sample_inputs for its two sample_outputs,
\* replaced by one pair
C17_Witness ==
    /\ genOut.ok
    /\ \/ (genRaw.sample_inputs = 12 /\ genRaw.sample_outputs = 12
              /\ genOut.draft.sample_inputs = MaxSamplePairs)
       \/ (genRaw.sample_inputs = 0 /\ genRaw.sample_outputs = 2
              /\ genOut.draft.sample_inputs = 1)

(***************************************************************************)
(* The scanner alone: a drawn text is edited by putting lexemes inside one *)
(* of its comments or literals; the scanners are applied to both texts.    *)
(***************************************************************************)
\* Java's lexical structure (JLS 3.7, 3.10.4, 3.10.5): the comment or
\* literal each lexeme of a text belongs to, as [kind, id], id numbering
\* the comments and literals of the text from 1; code lexemes have id 0.
RECURSIVE lexicalElements(_, _, _, _, _)
lexicalElements(text, i, kind, id, escaped) ==
    IF i > Len(text) THEN <<>>
    ELSE LET here == <<[kind |-> kind, id |-> id]>>
         IN  CASE kind = "line" ->
                    here \o (IF text[i] = "n"
                             THEN lexicalElements(text, i + 1, "code", id, FALSE)
                             ELSE lexicalElements(text, i + 1, "line", id, FALSE))
               [] kind = "block" ->
                    IF text[i] = "*" /\ CharAt(text, i + 1) = "/"
                    THEN here \o here \o lexicalElements(text, i + 2, "code", id, FALSE)
                    ELSE here \o lexicalElements(text, i + 1, "block", id, FALSE)
               [] kind \in {"string", "char"} ->
                    IF escaped THEN here \o lexicalElements(text, i + 1, kind, id, FALSE)
                    ELSE IF text[i] = "b" THEN here \o lexicalElements(text, i + 1, kind, id, TRUE)
                    ELSE IF text[i] = (IF kind = "string" THEN "q" ELSE "a")
                         THEN here \o lexicalElements(text, i + 1, "code", id, FALSE)
                         ELSE here \o lexicalElements(text, i + 1, kind, id, FALSE)
               [] OTHER ->
                    IF text[i] = "/" /\ CharAt(text, i + 1) \in {"/", "*"}
                    THEN <<[kind |-> IF text[i + 1] = "/" THEN "line" ELSE "block", id |-> id + 1],
                           [kind |-> IF text[i + 1] = "/" THEN "line" ELSE "block", id |-> id + 1]>>
                         \o lexicalElements(text, i + 2,
                                IF text[i + 1] = "/" THEN "line" ELSE "block", id + 1, FALSE)
                    ELSE IF text[i] \in {"q", "a"}
                    THEN <<[kind |-> IF text[i] = "q" THEN "string" ELSE "char", id |-> id + 1]>>
                         \o lexicalElements(text, i + 1,
                                IF text[i] = "q" THEN "string" ELSE "char", id + 1, FALSE)
                    ELSE <<[kind |-> "code", id |-> 0]>>
                         \o lexicalElements(text, i + 1, "code", id, FALSE)

\* the elements of a text, with the element an appended lexeme would join
ElementsOf(text) == lexicalElements(text \o <<"T">>, 1, "code", 0, FALSE)

\* ins put in front of lexeme at lies inside a comment or literal of text:
\* the lexemes on both sides belong to that one element, every lexeme of
\* ins joins it, and every lexeme of text stays in the element it was in
InsideElement(text, at, ins) ==
    \E before \in {ElementsOf(text)}, after \in {ElementsOf(InsertAt(text, at, ins))} :
        /\ at \in 2..(Len(text) + 1)
        /\ before[at].kind # "code"
        /\ before[at - 1] = before[at]
        /\ \A k \in 1..Len(ins) : after[at - 1 + k] = before[at]
        /\ \A k \in 1..(Len(text) + 1) :
              after[IF k < at THEN k ELSE k + Len(ins)] = before[k]

\* the inserted text: one lexeme, or an escape sequence
InsertTexts == {<<c>> : c \in ScanChars} \cup {<<"b", c>> : c \in {"q", "a", "b", "n"}}

InitScan ==
    /\ scSource \in SeqsUpTo(ScanChars, MaxScanLen)
    /\ scText = scSource
    /\ scEdit = NoEdit
    /\ IdlePlan
    /\ IdleGen
    /\ IdleRun
    /\ IdleRewrite
    /\ IdleCall
    /\ IdleApp

InsertInside ==
    /\ scEdit = NoEdit
    /\ \E at \in 2..(Len(scSource) + 1), ins \in InsertTexts :
          /\ InsideElement(scSource, at, ins)
          /\ scEdit' = [at |-> at, ins |-> ins]
          /\ scText' = InsertAt(scSource, at, ins)
    /\ UNCHANGED <<scSource, varsPlan, varsGen, varsRun, varsRewrite, varsCall, varsApp>>

NextScan == InsertInside

SpecScan == InitScan /\ [][NextScan]_vars

SchemaIssuesBeforeRepair ==
    CASE genSlot.language = "python" -> PythonSchemaIssues(pythonDraft(genSlot, genRaw))
      [] genSlot.language = "cpp" -> CppSchemaIssues(cppDraft(genSlot, genRaw))
      [] OTHER -> {}

SchemaIssuesOfReturned ==
    CASE genSlot.language = "python" -> PythonSchemaIssues(genOut.draft)
      [] genSlot.language = "cpp" -> CppSchemaIssues(genOut.draft)
      [] OTHER -> {}

\* C19: generateSingleProblem calls the test-suite repair only when every
\* schema issue of the assembled draft is on test_suite; a draft with an issue
\* on any other field fails and no repair call is made; a draft returned after
\* a repair passes the schema.
C19_SuiteRepairOnlyForSuiteIssues ==
    genOut.path = "generate" =>
        /\ genOut.suiteRepairCalls > 0 => SchemaIssuesBeforeRepair = {"test_suite"}
        /\ SchemaIssuesBeforeRepair \ {"test_suite"} # {} =>
              ~genOut.ok /\ genOut.suiteRepairCalls = 0
        /\ genOut.ok /\ genOut.suiteRepairCalls > 0 => SchemaIssuesOfReturned = {}

\* the same statement for the Python branch alone
C19_PythonBranchOnly ==
    genSlot.language = "python" => C19_SuiteRepairOnlyForSuiteIssues

\* a returned draft whose test suite was repaired
C19_RepairedSuiteReturned ==
    genOut.path = "generate" /\ genOut.ok /\ genOut.suiteRepairCalls > 0

\* the draft of the repair invocation agrees with previousDraft outside
\* reference_solution
SameExceptReference(next, prev) ==
    /\ DOMAIN next = DOMAIN prev
    /\ \A f \in DOMAIN prev \ {"reference_solution"} : next[f] = prev[f]

\* C20: on the Java reference-solution repair path generateSingleProblem makes
\* exactly one LLM call; it fails, or returns a draft equal to previousDraft in
\* every field but reference_solution; a repaired reference equal to the
\* previous one up to surrounding whitespace makes it fail with no draft.
C20_ReferenceRepairTouchesOnlyReference ==
    repairOut.path = "reference_repair" =>
        /\ repairOut.llmCalls = 1
        /\ repairOut.ok => SameExceptReference(repairOut.draft, genOut.draft)
        /\ repairReply.isString /\ Trim(repairReply) = genOut.draft.reference_solution =>
              ~repairOut.ok /\ repairOut.draft = NoDraft

\* the repairer answered the previous reference with whitespace around it
C20_UnchangedReplyRejected ==
    /\ repairOut.path = "reference_repair"
    /\ repairReply.isString
    /\ repairReply.padded
    /\ Trim(repairReply) = genOut.draft.reference_solution
    /\ ~repairOut.ok

\* the repair returned a draft with another reference_solution
C20_RepairedDraftReturned ==
    /\ repairOut.path = "reference_repair"
    /\ repairOut.ok
    /\ repairOut.draft.reference_solution # genOut.draft.reference_solution

(***************************************************************************)
(* The mechanical edits of one generateSingleProblem invocation, read off  *)
(* the stages that make them.                                              *)
(***************************************************************************)
\* the ids the Java single-file branch pushes onto rewrites
RecordedRewriteIds ==
    {"java.demote_extra_public_types", "java.promote_public_type", "java.tests.from_samples",
     "java.rename_test_class", "samples.autofill"}

\* the edits that changed an artifact of the draft built from the completion:
\* the ids of those that push a record, in the order of the code
PushedEdits(slot, raw) ==
    IF slot.language # "java" THEN <<>>
    ELSE Bind(prepareJavaStarter(slot, raw), LAMBDA st :
         Bind(prepareJavaReference(raw, st.className), LAMBDA rf :
         Bind(javaUsesStdin(rf.referenceSolution), LAMBDA usesStdin :
             st.rewrites \o rf.rewrites
             \o prepareJavaTestSuite(raw, usesStdin, TestNameOf(st.className)).rewrites
             \o RewriteIds(javaSamples(raw, usesStdin).changed, "samples.autofill"))))

\* the test suite of the completion had its string literals trimmed
SuiteSanitized(slot, raw) ==
    /\ slot.language = "java"
    /\ Bind(prepareJavaStarter(slot, raw), LAMBDA st :
       Bind(prepareJavaReference(raw, st.className), LAMBDA rf :
           prepareJavaTestSuite(raw, javaUsesStdin(rf.referenceSolution),
                                TestNameOf(st.className)).sanitized))

\* the sample pairs of a Python or C++ completion were filled or cut
SamplesFilled(slot, raw) ==
    /\ slot.language \in {"python", "cpp"}
    /\ coerceNonEmptySamplePairs(raw.sample_inputs, raw.sample_outputs).changed

InRewrites(id, out) == \E k \in 1..Len(out.rewrites) : out.rewrites[k] = id

\* C21: every mechanical edit that generateSingleProblem applied to a returned
\* draft and that changed it (demote, promote, test-class rename, literal
\* sanitising, stdin suite rebuild, sample filling) has a record in the
\* rewrites returned with the draft.
C21_EveryEditRecorded ==
    (genOut.path = "generate" /\ genOut.ok) =>
        /\ \A k \in 1..Len(PushedEdits(genSlot, genRaw)) :
               InRewrites(PushedEdits(genSlot, genRaw)[k], genOut)
        /\ SuiteSanitized(genSlot, genRaw) =>
               \E k \in 1..Len(genOut.rewrites) : genOut.rewrites[k] \notin RecordedRewriteIds
        /\ SamplesFilled(genSlot, genRaw) => InRewrites("samples.autofill", genOut)

\* the edits of the Java branch other than the sanitiser are all recorded
C21_PushedEditsRecorded ==
    (genOut.path = "generate" /\ genOut.ok) => genOut.rewrites = PushedEdits(genSlot, genRaw)

\* a Java draft is returned whose test suite was sanitised
C21_SanitizedDraftReturned ==
    genOut.path = "generate" /\ genOut.ok /\ SuiteSanitized(genSlot, genRaw)

(***************************************************************************)
(* The Java branches of generateSingleProblem step by step: one invocation *)
(* on a single-file or a workspace-shaped completion, with the steps it    *)
(* ran.                                                                    *)
(***************************************************************************)
WorkspaceSources ==
    {<<>>,
     <<WorkspaceFile("T", "support", JavaText(FALSE, <<Decl("T", "class", TRUE)>>))>>,
     <<WorkspaceFile("T", "support",
                     JavaText(FALSE, <<Decl("T", "class", TRUE), Decl("U", "class", TRUE)>>))>>,
     <<WorkspaceFile("U", "entry", JavaText(FALSE, <<Decl("U", "class", TRUE)>>)),
       WorkspaceFile("T", "support", JavaText(FALSE, <<Decl("T", "class", TRUE)>>))>>,
     <<WorkspaceFile("T", "support", JavaText(FALSE, <<Decl("U", "class", TRUE)>>))>>}

ReferenceWorkspaceSources ==
    {<<>>,
     <<WorkspaceFile("T", "support", WellFormedJavaReference)>>,
     <<WorkspaceFile("T", "support",
                     [WellFormedJavaReference EXCEPT
                         !.decls = <<Decl("T", "class", TRUE), Decl("U", "class", TRUE)>>])>>,
     <<WorkspaceFile("T", "support", [WellFormedJavaReference EXCEPT !.whileFalse = TRUE])>>,
     <<WorkspaceFile("T", "support", [WellFormedJavaReference EXCEPT !.prints = FALSE])>>,
     <<WorkspaceFile("U", "entry",
                     JavaReference(TRUE, FALSE, <<Decl("U", "class", TRUE)>>,
                                   FALSE, FALSE, TRUE, TRUE, FALSE)),
       WorkspaceFile("T", "support", WellFormedJavaReference)>>}

WorkspaceOutput(files, refFiles, suite, constraints, samples) ==
    [json |-> TRUE,
     workspace |-> [files |-> files],
     reference_workspace |-> [files |-> refFiles],
     test_suite |-> suite,
     constraints |-> constraints,
     sample_inputs |-> samples,
     sample_outputs |-> samples,
     difficulty |-> CompletionDifficulty,
     topic_tag |-> CompletionTopicTag]

\* a completion for a stdin-driven problem: the reference reads stdin in its
\* main method and eight stdin transcripts are given
StdinJavaOutput ==
    [WellFormedJavaOutput EXCEPT
        !.reference_solution = [WellFormedJavaReference EXCEPT !.usesStdin = TRUE, !.hasMain = TRUE],
        !.sample_inputs = StdinSampleCount]

JavaSlots == {slot \in GeneratorSlots : slot.language = "java"}

InitJavaSteps ==
    /\ \E slot \in JavaSlots :
          \/ \E raw \in JavaOutputs(1) \cup JavaDeviate(StdinJavaOutput) :
                callArgs = [function |-> "generateSingleProblem", slot |-> slot, raw |-> raw]
          \/ \E files \in WorkspaceSources, refFiles \in ReferenceWorkspaceSources,
                suite \in JavaTestTexts,
                constraints \in {ConstraintsText(TRUE, ConstraintsOf("java"), FALSE),
                                 ConstraintsText(TRUE, ConstraintsOf("python"), FALSE)},
                samples \in {0, 2} :
                callArgs = [function |-> "generateSingleProblem", slot |-> slot,
                            raw |-> WorkspaceOutput(files, refFiles, suite, constraints, samples)]
    /\ callResults = <<>>
    /\ IdlePlan
    /\ IdleGen
    /\ IdleRun
    /\ IdleRewrite
    /\ IdleScan
    /\ IdleApp

\* one generateSingleProblem invocation without repair context, and the steps
\* its Java branch ran
RunJavaBranch ==
    /\ callArgs.function = "generateSingleProblem"
    /\ callResults = <<>>
    /\ \E judgeStderr \in BOOLEAN :
          callResults' =
              <<[out |-> generateSingleProblem(callArgs.slot, NoRepair,
                             [raw |-> callArgs.raw,
                              suiteRepair |-> [throws |-> TRUE, test_suite |-> PythonTests(FALSE, "invalid")],
                              judgeStderr |-> judgeStderr,
                              repaired |-> NoRepairCompletion, failingCall |-> "none"]),
                 steps |-> IF callArgs.raw.json
                           THEN javaSteps(callArgs.slot, callArgs.raw, judgeStderr)
                           ELSE <<>>]>>
    /\ UNCHANGED <<callArgs, varsPlan, varsGen, varsRun, varsRewrite, varsScan, varsApp>>

NextJavaSteps == RunJavaBranch

SpecJavaSteps == InitJavaSteps /\ [][NextJavaSteps]_vars

\* no rewrite of an artifact comes after the evaluation of an obligation on it
RewritesBeforeObligations(steps) ==
    \A i \in 1..Len(steps), j \in 1..Len(steps) :
        (i < j /\ steps[i].kind = "obligation" /\ steps[j].kind = "rewrite")
            => steps[i].artifacts \cap steps[j].artifacts = {}

\* C22: within one attempt rewrites run before obligations: when an obligation
\* is evaluated on an artifact (starter, reference, test suite or a workspace
\* file), every rewrite the attempt applies to that artifact has been
\* applied, in the single-file and in the workspace branch.
C22_RewritesBeforeObligations ==
    callResults # <<>> => RewritesBeforeObligations(callResults[1].steps)

\* the outcome of the invocation is the one its steps lead to
C22_StepsAgreeWithOutcome ==
    (callResults # <<>> /\ callArgs.raw.json) =>
        LET out == callResults[1].out
            steps == callResults[1].steps
            threw == steps # <<>> /\ steps[Len(steps)].throws
        IN  /\ out.ok <=> ~threw
            /\ threw => out.message = steps[Len(steps)].message /\ out.obligationId = steps[Len(steps)].id
            /\ out.ok => out.rewrites = pushedRewrites(steps)

\* the same ordering in the workspace branch alone
C22_WorkspaceDemotesAfterObligations ==
    (callResults # <<>> /\ isWorkspaceShaped(callArgs.raw)) =>
        RewritesBeforeObligations(callResults[1].steps)

\* a workspace draft is returned whose reference file was demoted
C22_WorkspaceDraftReturned ==
    /\ callResults # <<>>
    /\ isWorkspaceShaped(callArgs.raw)
    /\ callResults[1].out.ok
    /\ \E k \in 1..Len(callResults[1].steps) :
          /\ callResults[1].steps[k].kind = "rewrite"
          /\ callResults[1].steps[k].artifacts = {Artifact("reference_workspace", 1)}

(***************************************************************************)
(* The draft id.  Every branch of generateSingleProblem takes the id of    *)
(* the completion when it is a string that is not blank, and otherwise     *)
(* crypto.randomUUID(), whose value nothing in the invocation determines.  *)
(***************************************************************************)
RawId(text, padded) == [isString |-> TRUE, core |-> text, padded |-> padded]

NoRawId == [isString |-> FALSE, core |-> "", padded |-> FALSE]

RawIds == {NoRawId, RawId("", TRUE), RawId("p1", TRUE)}

\* the values crypto.randomUUID() can return
UUIDs == {"uuid-a", "uuid-b"}

baseId(rawId, uuid) == IF rawId.isString /\ Trim(rawId) # "" THEN Trim(rawId) ELSE uuid

(***************************************************************************)
(* generateSingleProblem invoked twice on the same slot with the same LLM  *)
(* texts (the completion, its id, the reply to the suite repair call) and  *)
(* the same judge verdict for the reference run on the samples.            *)
(***************************************************************************)
MaxInvocations == 2

InitTwice ==
    /\ \E slot \in GeneratorSlots :
       \E raw \in LLMOutputs(slot.language), rawId \in RawIds,
          suiteRepair \in SuiteRepairs, judgeStderr \in BOOLEAN :
            callArgs = [function |-> "generateSingleProblem twice", slot |-> slot, raw |-> raw,
                        rawId |-> rawId, suiteRepair |-> suiteRepair, judgeStderr |-> judgeStderr]
    /\ callResults = <<>>
    /\ IdlePlan
    /\ IdleGen
    /\ IdleRun
    /\ IdleRewrite
    /\ IdleScan
    /\ IdleApp

Invoke ==
    /\ callArgs.function = "generateSingleProblem twice"
    /\ Len(callResults) < MaxInvocations
    /\ \E uuid \in UUIDs :
       \E out \in {generateSingleProblem(callArgs.slot, NoRepair,
                       [raw |-> callArgs.raw, suiteRepair |-> callArgs.suiteRepair,
                        judgeStderr |-> callArgs.judgeStderr,
                        repaired |-> NoRepairCompletion, failingCall |-> "none"])} :
          callResults' = Append(callResults,
                                [out |-> out,
                                 id |-> IF out.ok THEN baseId(callArgs.rawId, uuid) ELSE ""])
    /\ UNCHANGED <<callArgs, varsPlan, varsGen, varsRun, varsRewrite, varsScan, varsApp>>

NextTwice == Invoke

SpecTwice == InitTwice /\ [][NextTwice]_vars

BothReturned ==
    /\ callArgs.function = "generateSingleProblem twice"
    /\ Len(callResults) = MaxInvocations
    /\ callResults[1].out.ok
    /\ callResults[2].out.ok

\* C23: two invocations of the generator on the same slot, the same LLM
\* texts and the same judge verdicts return the same draft, its id included,
\* also when the completion carries no id.
C23_SameInputsSameDraft ==
    BothReturned => /\ callResults[1].out.draft = callResults[2].out.draft
                    /\ callResults[1].id = callResults[2].id

\* the same with the id left aside: everything of the draft but its id is
\* determined by the inputs
C23_SameInputsSameDraftButId ==
    BothReturned => callResults[1].out = callResults[2].out

\* the same for completions that carry an id
C23_SameIdWhenCompletionHasOne ==
    (BothReturned /\ callArgs.rawId.isString /\ Trim(callArgs.rawId) # "")
        => callResults[1].id = callResults[2].id

C23_TwoDraftsWithoutRawId ==
    BothReturned /\ ~callArgs.rawId.isString

(***************************************************************************)
(* runTestStrengthGate alone on a draft that generateSingleProblem         *)
(* returned for its slot (SQL drafts, whose branch of the generator is not *)
(* modelled, are given by their language and test suite): buildBaselines,  *)
(* then one judge call per step.                                           *)
(***************************************************************************)
SqlDraft == [language |-> "sql", test_suite |-> "schema_sql and expected rows"]

GateSlots ==
    GeneratorSlots
    \cup {Slot(0, "sql", "hard", <<topic>>, style) :
             topic \in TagNames, style \in {"stdout", "return"}}

GateCompletions(language) ==
    CASE language = "java" ->
            JavaOutputs(1)
            \cup {WorkspaceOutput(files, refFiles, suite,
                                  ConstraintsText(TRUE, ConstraintsOf("java"), FALSE), 2) :
                     files \in WorkspaceSources, refFiles \in ReferenceWorkspaceSources,
                     suite \in JavaTestTexts}
      [] language = "cpp" -> CppOutputs(1)
      [] language = "python" -> PythonOutputs(1)
      [] OTHER -> {}

InitGate ==
    /\ \E slot \in GateSlots :
          \/ /\ slot.language = "sql"
             /\ callArgs = [function |-> "runTestStrengthGate", draft |-> SqlDraft, slot |-> slot]
          \/ \E raw \in GateCompletions(slot.language), suiteRepair \in SuiteRepairs :
             \E out \in {generateSingleProblem(slot, NoRepair,
                             [raw |-> raw, suiteRepair |-> suiteRepair, judgeStderr |-> FALSE,
                              repaired |-> NoRepairCompletion, failingCall |-> "none"])} :
                /\ out.ok
                /\ callArgs = [function |-> "runTestStrengthGate", draft |-> out.draft,
                               slot |-> slot]
    /\ callResults = <<>>
    /\ IdlePlan
    /\ IdleGen
    /\ IdleRun
    /\ IdleRewrite
    /\ IdleScan
    /\ IdleApp

\* const baselines = buildBaselines(draft, slot)
BuildBaselines ==
    /\ callArgs.function = "runTestStrengthGate"
    /\ callResults = <<>>
    /\ \E requests \in {buildBaselineRequests(callArgs.draft, callArgs.slot)} :
          callResults' = <<[requests |-> requests,
                            gate |-> NewGate(buildBaselines(callArgs.draft, callArgs.slot))]>>
    /\ UNCHANGED <<callArgs, varsPlan, varsGen, varsRun, varsRewrite, varsScan, varsApp>>

\* one iteration of the loop: the judge's verdict on the next baseline
JudgeBaseline ==
    /\ callArgs.function = "runTestStrengthGate"
    /\ callResults # <<>>
    /\ callResults[1].gate.outcome = "running"
    /\ \E success \in BOOLEAN :
          callResults' = <<[callResults[1] EXCEPT
                               !.gate = runTestStrengthGateStep(callResults[1].gate, success)]>>
    /\ UNCHANGED <<callArgs, varsPlan, varsGen, varsRun, varsRewrite, varsScan, varsApp>>

NextGate == BuildBaselines \/ JudgeBaseline

SpecGate == InitGate /\ [][NextGate]_vars

GateBuilt == callArgs.function = "runTestStrengthGate" /\ callResults # <<>>

SubmittedIds == [i \in 1..Len(callResults[1].requests) |-> callResults[1].requests[i].id]

OwnTestSuite ==
    \A i \in 1..Len(callResults[1].requests) :
        callResults[1].requests[i].testSuite = callArgs.draft.test_suite

\* C24: the gate submits the starter scaffold and a trivial-constant baseline,
\* both with the draft's own test suite, for every Python, C++ and SQL draft,
\* and the starter scaffold alone for every Java draft; no Python, C++ or SQL
\* draft is accepted after only the starter baseline was judged.
C24_BaselinesPerLanguage ==
    GateBuilt =>
        /\ OwnTestSuite
        /\ callArgs.draft.language \in {"python", "cpp", "sql"}
              => /\ SubmittedIds = <<"starter_code", "trivial_baseline">>
                 /\ callResults[1].gate.outcome = "accepted"
                        => Len(callResults[1].gate.log) = 2
        /\ callArgs.draft.language = "java"
              => SubmittedIds \in {<<"starter_code">>, <<"starter_workspace">>}

\* the same for every draft but the C++ drafts whose reference has no solve
\* definition that extractCppSolveSignature reads
C24_BaselinesWhenSignatureRead ==
    (GateBuilt /\ ~(/\ callArgs.draft.language = "cpp"
                    /\ extractCppSolveSignature(callArgs.draft.reference_solution) = "null"))
        => /\ OwnTestSuite
           /\ callArgs.draft.language \in {"python", "cpp", "sql"}
                 => /\ SubmittedIds = <<"starter_code", "trivial_baseline">>
                    /\ callResults[1].gate.outcome = "accepted"
                           => Len(callResults[1].gate.log) = 2
           /\ callArgs.draft.language = "java"
                 => SubmittedIds \in {<<"starter_code">>, <<"starter_workspace">>}

\* a C++ draft accepted after the starter baseline alone was judged
C24_CppAcceptedOnStarterAlone ==
    /\ GateBuilt
    /\ callArgs.draft.language = "cpp"
    /\ callResults[1].gate.outcome = "accepted"
    /\ Len(callResults[1].gate.log) = 1

(***************************************************************************)
(* One generateSingleProblem invocation in which the transport of one of   *)
(* the LLM calls may fail (createCodemmCompletion rejects): the generation *)
(* call, the suite repair call of the Python and C++ branches, or the Java *)
(* reference repair call of an invocation with a previous draft.           *)
(***************************************************************************)
LLMCalls == {"generation", "suite_repair", "reference_repair"}

\* no previous draft, or for a Java slot the draft returned for a well-formed
\* completion (the one whose reference the judge rejected)
PreviousDrafts(slot) ==
    IF slot.language # "java" THEN {NoDraft}
    ELSE {NoDraft}
         \cup {out.draft :
                  out \in {o \in {generateSingleProblem(slot, NoRepair,
                                      [raw |-> WellFormedJavaOutput,
                                       suiteRepair |-> [throws |-> TRUE,
                                                        test_suite |-> PythonTests(FALSE, "invalid")],
                                       judgeStderr |-> FALSE,
                                       repaired |-> NoRepairCompletion,
                                       failingCall |-> "none"])} : o.ok}}

InitTransport ==
    /\ \E slot \in GeneratorSlots :
       \E raw \in CASE slot.language = "java" -> JavaOutputs(1)
                    [] slot.language = "cpp" -> CppOutputs(1)
                    [] OTHER -> PythonOutputs(1),
          previousDraft \in PreviousDrafts(slot),
          suiteRepair \in PipelineSuiteRepairs,
          repaired \in PipelineReferenceRepairs,
          failingCall \in LLMCalls \cup {"none"} :
            callArgs = [function |-> "generateSingleProblem",
                        slot |-> slot,
                        repair |-> [previousDraft |-> previousDraft],
                        llm |-> [raw |-> raw, suiteRepair |-> suiteRepair, judgeStderr |-> FALSE,
                                 repaired |-> repaired, failingCall |-> failingCall]]
    /\ callResults = <<>>
    /\ IdlePlan
    /\ IdleGen
    /\ IdleRun
    /\ IdleRewrite
    /\ IdleScan
    /\ IdleApp

AttemptWithTransport ==
    /\ callArgs.function = "generateSingleProblem"
    /\ "llm" \in DOMAIN callArgs
    /\ callResults = <<>>
    /\ callResults' = <<generateSingleProblem(callArgs.slot, callArgs.repair, callArgs.llm)>>
    /\ UNCHANGED <<callArgs, varsPlan, varsGen, varsRun, varsRewrite, varsScan, varsApp>>

NextTransport == AttemptWithTransport

SpecTransport == InitTransport /\ [][NextTransport]_vars

\* the invocation issued the LLM call whose transport fails
TransportFailed ==
    /\ callArgs.function = "generateSingleProblem"
    /\ "llm" \in DOMAIN callArgs
    /\ callResults # <<>>
    /\ \/ callArgs.llm.failingCall = "generation" /\ callResults[1].path = "generate"
       \/ callArgs.llm.failingCall = "reference_repair" /\ callResults[1].path = "reference_repair"
       \/ callArgs.llm.failingCall = "suite_repair" /\ callResults[1].suiteRepairCalls > 0

\* C25: a failure of the LLM transport during any LLM call of a slot attempt
\* (generation, suite repair, Java reference repair) ends the attempt with a
\* failure that is not a contract failure (no GenerationContractError).
C25_TransportFailureNeverContract ==
    TransportFailed => ~callResults[1].ok /\ ~callResults[1].contract

\* the same for the two calls awaited outside the try block
C25_GenerationAndReferenceRepairTransport ==
    (TransportFailed /\ callArgs.llm.failingCall # "suite_repair")
        => ~callResults[1].ok /\ ~callResults[1].contract

\* a suite repair call whose transport failed, thrown as GenerationContractError
C25_SuiteRepairTransportAsContract ==
    /\ TransportFailed
    /\ callArgs.llm.failingCall = "suite_repair"
    /\ callResults[1].contract
    /\ callResults[1].message = TransportErrorMessage

\* the reference of a stdin-driven Java completion was run on the samples and
\* a run wrote to stderr
StderrOnSample ==
    /\ callArgs.function = "generateSingleProblem"
    /\ "raw" \in DOMAIN callArgs
    /\ callResults # <<>>
    /\ \E i \in 1..Len(callResults[1].steps) :
          /\ callResults[1].steps[i].message = "Reference execution produced stderr (stdin sample)"
          /\ callResults[1].steps[i].throws

\* C26: when the reference of a stdin-driven Java completion writes to stderr
\* on a sample, no test suite is rebuilt and the attempt fails with kind
\* execution.
C26_StderrFailsWithExecution ==
    StderrOnSample
        => /\ ~callResults[1].out.ok
           /\ ~Contains(callResults[1].out.rewrites, "java.tests.from_samples")
           /\ \A i \in 1..Len(callResults[1].steps) :
                 callResults[1].steps[i].id # "java.tests.from_samples"
           /\ attemptKind(callResults[1].out) = "execution"

\* the first half alone: the attempt fails and no test suite is rebuilt
C26_StderrRebuildsNothing ==
    StderrOnSample
        => /\ ~callResults[1].out.ok
           /\ ~Contains(callResults[1].out.rewrites, "java.tests.from_samples")
           /\ \A i \in 1..Len(callResults[1].steps) :
                 callResults[1].steps[i].id # "java.tests.from_samples"

\* the attempt that ran the reference on the samples and got stderr failed as
\* a contract failure
C26_StderrFailsAsContract ==
    StderrOnSample /\ attemptKind(callResults[1].out) = "contract"

(***************************************************************************)
(* languages/java/structuralTopics.ts on the text of the reference and of  *)
(* the test suite.  A reference is the sequence of its type declarations   *)
(* as the patterns of indexJavaTypes find them (keyword, name, extends,    *)
(* implements); a test suite is the set of the identifiers it contains and *)
(* the declarations of the form "Type name = new Constructed" in it.       *)
(***************************************************************************)
TypeDecl(keyword, name, extendsName, implementsNames) ==
    [keyword |-> keyword, name |-> name, extendsName |-> extendsName,
     implementsNames |-> implementsNames]

\* Array.from(new Set(names)): the first occurrences, in order
RECURSIVE uniqueNames(_)
uniqueNames(names) ==
    IF names = <<>> THEN <<>>
    ELSE Bind(uniqueNames(SubSeq(names, 1, Len(names) - 1)), LAMBDA head :
         IF Contains(head, names[Len(names)]) THEN head
         ELSE Append(head, names[Len(names)]))

\* the names of the declarations that satisfy a test, in source order
RECURSIVE namesWhere(_, _)
namesWhere(decls, keywords) ==
    IF decls = <<>> THEN <<>>
    ELSE Bind(namesWhere(SubSeq(decls, 1, Len(decls) - 1), keywords), LAMBDA head :
         IF decls[Len(decls)].keyword \in keywords
         THEN Append(head, decls[Len(decls)].name) ELSE head)

\* indexJavaTypes: "interface X", "abstract class X", and every "class X
\* [extends Y] [implements Z, ...] {", the abstract classes among them
indexJavaTypes(source) ==
    [interfaces |-> uniqueNames(namesWhere(source, {"interface"})),
     abstractClasses |-> uniqueNames(namesWhere(source, {"abstract class"})),
     classes |-> SelectSeq(source, LAMBDA d : d.keyword \in {"class", "abstract class"})]

\* pickBaseType: index.interfaces[0] ?? index.abstractClasses[0] ?? null
pickBaseType(index) ==
    IF index.interfaces # <<>> THEN index.interfaces[1]
    ELSE IF index.abstractClasses # <<>> THEN index.abstractClasses[1]
    ELSE "null"

RECURSIVE implementationsIn(_, _)
implementationsIn(classes, base) ==
    IF classes = <<>> THEN <<>>
    ELSE Bind(classes[Len(classes)], LAMBDA c :
         Bind(implementationsIn(SubSeq(classes, 1, Len(classes) - 1), base), LAMBDA head :
         IF c.name # base /\ (c.extendsName = base \/ base \in c.implementsNames)
         THEN Append(head, c.name) ELSE head))

findImplementations(index, base) == uniqueNames(implementationsIn(index.classes, base))

\* requireTestMentions: the first of the names the test suite does not contain
requireTestMentions(testSuite, names) ==
    IF \A i \in 1..Len(names) : names[i] \in testSuite.mentions THEN ""
    ELSE "test_suite must mention"

\* the polymorphism branch of assertJavaStructuralTopicRequirements: the
\* message of the error it throws, "" when it throws none
polymorphismRequirement(referenceSource, testSuite) ==
    Bind(indexJavaTypes(referenceSource), LAMBDA index :
    Bind(pickBaseType(index), LAMBDA base :
    IF base = "null"
    THEN "reference solution must define an interface or abstract class to serve as a base type"
    ELSE Bind(findImplementations(index, base), LAMBDA impls :
         IF Len(impls) < 2 THEN "must include at least 2 concrete implementations"
         ELSE IF requireTestMentions(testSuite, <<base, impls[1], impls[2]>>) # ""
              THEN requireTestMentions(testSuite, <<base, impls[1], impls[2]>>)
         ELSE IF ~\E a \in testSuite.assignments : a.declared = base
              THEN "test_suite must assign a reference to a concrete implementation"
         ELSE "")))

\* assertJavaStructuralTopicRequirements for the topics of the model, on text
structuralTopicRequirementsOnText(topics, referenceSource, testSuite) ==
    IF hasStructuralTopic(topics, "polymorphism")
    THEN polymorphismRequirement(referenceSource, testSuite)
    ELSE ""

(***************************************************************************)
(* The references and test suites the function is applied to.              *)
(***************************************************************************)
MaxBaseTypes == 2

MaxImplementations == 2

BaseTypeDecls ==
    {TypeDecl(keyword, name, "null", {}) :
        keyword \in {"interface", "abstract class"}, name \in {"Shape", "Marker"}}

ImplementationDecls ==
    {TypeDecl("class", "Circle", "null", {"Shape"}),
     TypeDecl("class", "Circle", "Shape", {}),
     TypeDecl("class", "Square", "null", {"Shape"}),
     TypeDecl("class", "Square", "null", {"Marker"}),
     TypeDecl("abstract class", "Square", "Shape", {}),
     TypeDecl("class", "Square", "null", {})}

TestAssignments ==
    {{},
     {[declared |-> "Shape", constructed |-> "Circle"]},
     {[declared |-> "Shape", constructed |-> "Object"]},
     {[declared |-> "Circle", constructed |-> "Circle"]}}

\* the identifiers of a test suite contain those of its assignments
TestSuiteTexts ==
    {[mentions |-> names \cup UNION {{a.declared, a.constructed} : a \in assignments},
      assignments |-> assignments] :
        names \in SUBSET {"Shape", "Circle", "Square"}, assignments \in TestAssignments}

InitTopics ==
    /\ \E bases \in {<<>>} \cup SeqsUpTo(BaseTypeDecls, MaxBaseTypes),
          impls \in {<<>>} \cup SeqsUpTo(ImplementationDecls, MaxImplementations),
          testSuite \in TestSuiteTexts,
          topic \in TagNames :
            callArgs = [function |-> "assertJavaStructuralTopicRequirements",
                        topics |-> <<topic>>,
                        referenceSource |-> bases \o impls,
                        testSuite |-> testSuite]
    /\ callResults = <<>>
    /\ IdlePlan
    /\ IdleGen
    /\ IdleRun
    /\ IdleRewrite
    /\ IdleScan
    /\ IdleApp

AssertTopicRequirements ==
    /\ callArgs.function = "assertJavaStructuralTopicRequirements"
    /\ callResults = <<>>
    /\ callResults' = <<structuralTopicRequirementsOnText(callArgs.topics, callArgs.referenceSource,
                                                          callArgs.testSuite)>>
    /\ UNCHANGED <<callArgs, varsPlan, varsGen, varsRun, varsRewrite, varsScan, varsApp>>

NextTopics == AssertTopicRequirements

SpecTopics == InitTopics /\ [][NextTopics]_vars

PolymorphismAsserted ==
    /\ callArgs.function = "assertJavaStructuralTopicRequirements"
    /\ callResults # <<>>
    /\ callArgs.topics = <<"polymorphism">>

\* the concrete classes of a reference that extend or implement a base type
ConcreteImplementations(source, base) ==
    {source[i].name : i \in {k \in 1..Len(source) :
        /\ source[k].keyword = "class"
        /\ source[k].name # base
        /\ (source[k].extendsName = base \/ base \in source[k].implementsNames)}}

\* the condition of the statement for one base type of the reference
PolymorphismShownWith(source, testSuite, base) ==
    /\ \E i \in 1..Len(source) :
          source[i].name = base /\ source[i].keyword \in {"interface", "abstract class"}
    /\ Cardinality(ConcreteImplementations(source, base)) >= 2
    /\ base \in testSuite.mentions
    /\ Cardinality(ConcreteImplementations(source, base) \cap testSuite.mentions) >= 2
    /\ \E a \in testSuite.assignments :
          /\ a.declared = base
          /\ \E i \in 1..Len(source) : source[i].name = a.constructed /\ source[i].keyword = "class"

PolymorphismShown(source, testSuite) ==
    \E base \in {"Shape", "Marker"} : PolymorphismShownWith(source, testSuite, base)

\* C27: for the polymorphism topic assertJavaStructuralTopicRequirements
\* accepts exactly when the reference defines an interface or abstract class
\* with at least two concrete implementations and the test suite mentions the
\* base and two implementations and declares a base-typed variable assigned a
\* new concrete instance.
C27_PolymorphismAcceptedExactlyWhenShown ==
    PolymorphismAsserted
        => (callResults[1] = "" <=> PolymorphismShown(callArgs.referenceSource, callArgs.testSuite))

\* the same where the reference has one base type, every class that extends
\* or implements it is concrete, and every assignment constructs a class of
\* the reference
C27_SingleBaseConcreteImplementations ==
    (/\ PolymorphismAsserted
     /\ Len(uniqueNames(namesWhere(callArgs.referenceSource, {"interface", "abstract class"}))) <= 1
     /\ \A i \in 1..Len(callArgs.referenceSource) :
           callArgs.referenceSource[i].keyword = "abstract class"
               => callArgs.referenceSource[i].extendsName = "null"
     /\ \A a \in callArgs.testSuite.assignments : a.constructed # "Object")
        => (callResults[1] = "" <=> PolymorphismShown(callArgs.referenceSource, callArgs.testSuite))

\* a reference and a test suite that show polymorphism on the second
\* interface of the reference, rejected
C27_ShownOnSecondBaseRejected ==
    /\ PolymorphismAsserted
    /\ callResults[1] # ""
    /\ PolymorphismShown(callArgs.referenceSource, callArgs.testSuite)

\* accepted although the statement's condition does not hold
C27_AcceptedWithoutConcreteInstance ==
    /\ PolymorphismAsserted
    /\ callResults[1] = ""
    /\ ~PolymorphismShown(callArgs.referenceSource, callArgs.testSuite)

\* C28: the gate judges the baselines one at a time in the order of
\* buildBaselines, the starter scaffold first, and stops at the first baseline
\* that passes: the error carries that baseline's id and no later baseline is
\* judged, so a passing starter costs exactly one judge call.
C28_GateStopsAtFirstPassingBaseline ==
    GateBuilt =>
        LET g == callResults[1].gate
        IN  /\ g.baselines[1] \in {"starter_code", "starter_workspace"}
            /\ Len(g.log) <= Len(g.baselines)
            /\ \A i \in 1..Len(g.log) :
                  /\ g.log[i].baselineId = g.baselines[i]
                  /\ g.log[i].success => /\ i = Len(g.log)
                                         /\ g.outcome = "rejected"
                                         /\ g.baselineId = g.baselines[i]
            /\ g.outcome = "rejected" => g.log[Len(g.log)].success
            /\ (g.log # <<>> /\ g.log[1].success) => Len(g.log) = 1

\* a gate of two baselines rejected on its starter after one judge call
C28_StarterPassedAfterOneCall ==
    /\ GateBuilt
    /\ Len(callResults[1].gate.baselines) = 2
    /\ callResults[1].gate.outcome = "rejected"
    /\ callResults[1].gate.baselineId = "starter_code"
    /\ Len(callResults[1].gate.log) = 1

\* the attempts of the current slot that ended in generateSingleProblem
GenerationFailed(entry) == entry.outcome \in {"contract", "fatal"}

\* C29: in every slot attempt the stages run in the order generation,
\* reference validation, gate, and the first failing stage ends the attempt:
\* the reference is validated only for a draft generateSingleProblem returned,
\* the gate judges only a draft whose reference validation succeeded, and each
\* attempt makes one generateSingleProblem call.
C29_StagesInOrderFirstFailureEnds ==
    /\ \A k \in 1..Len(slotLog) :
          /\ slotLog[k].checked
          /\ slotLog[k].validated => ~GenerationFailed(slotLog[k])
          /\ slotLog[k].judged # <<>> => slotLog[k].validated /\ slotLog[k].outcome # "execution"
          /\ slotLog[k].outcome = "execution" => slotLog[k].validated
          /\ k < Len(slotLog) => slotLog[k].outcome \in {"contract", "execution", "quality"}
    /\ pc = "validate" => /\ draft # NoDraft
                          /\ slotLog[Len(slotLog)].outcome = "pending"
                          /\ ~slotLog[Len(slotLog)].validated
    /\ pc = "gate" => /\ draft # NoDraft
                      /\ slotLog[Len(slotLog)].validated
                      /\ slotLog[Len(slotLog)].outcome = "pending"
    /\ pc \in {"generate", "validate", "gate", "rejected"}
          => /\ calls.generation + calls.referenceRepair = Len(slotLog)
             /\ calls.validate <= Len(slotLog)

\* an attempt that ended in reference validation, followed by a second attempt
\* that reached the gate
C29_SecondAttemptReachedGate ==
    /\ pc = "gate"
    /\ Len(slotLog) = 2
    /\ slotLog[1].outcome = "execution"
    /\ slotLog[1].judged = <<>>
    /\ slotLog[2].judged # <<>>

\* the generateSingleProblem invocations made so far
Invocations == {out \in {genOut, repairOut} : out.path # "pending"}

RepairedSuiteRejected(out) ==
    out.message \in {"failed schema validation after Python test_suite repair",
                     "failed schema validation after C++ test_suite repair"}

C31_CheckFailuresAreContractErrors ==
    \A out \in Invocations :
        ~out.ok => /\ out.contract
                   /\ out.meta.llmOutputHash # NoDraft

\* the same for the invocations that take the generation path
C31_GenerationPathFailuresAreContractErrors ==
    (genOut.path = "generate" /\ ~genOut.ok)
        => /\ genOut.contract
           /\ genOut.meta.llmOutputHash = sha256(genRaw)

\* a reference repair invocation whose reply fails a check of
\* assertJavaLegacyDraftInvariants: a plain Error without obligation id
C31_RepairPathCheckFailedPlain ==
    /\ repairOut.path = "reference_repair"
    /\ ~repairOut.ok
    /\ ~repairOut.contract
    /\ repairOut.obligationId = ""
    /\ repairOut.message = "reference_solution must not include while(false)"

JudgeStepMessage == "Reference execution produced stderr (stdin sample)"

\* the reference was handed to the judge: the step that executes it on the
\* stdin samples is among the steps that ran
judgeExecuted(steps) ==
    \E i \in 1..Len(executedSteps(steps)) : executedSteps(steps)[i].message = JudgeStepMessage

\* no step ahead of the stdin checks threw
stdinChecksReached(steps) ==
    \A i \in 1..Len(steps) :
        (\A j \in 1..i : steps[j].id # "java.stdin_disallowed_for_structural_topics")
            => ~(steps[i].happens /\ steps[i].throws)

slotHasStructuralTopic(slot) == \E k \in StructuralKeys : Contains(slot.topics, k)

SingleFileInvocation ==
    /\ callResults # <<>>
    /\ callArgs.raw.json
    /\ ~isWorkspaceShaped(callArgs.raw)

C32_StdinRejectedInStructuralSlot ==
    /\ SingleFileInvocation
    /\ slotHasStructuralTopic(callArgs.slot)
    /\ callResults[1].out.obligationId = "java.stdin_disallowed_for_structural_topics"

\* a stdin-reading reference without main was rejected
C32_StdinRejectedWithoutMain ==
    /\ SingleFileInvocation
    /\ callResults[1].out.obligationId = "java.stdin_requires_main"

\* the judge is not reached with fewer than 8 sample inputs
C32_StdinRejectedOnFewSamples ==
    /\ SingleFileInvocation
    /\ callArgs.raw.sample_inputs < StdinSampleCount
    /\ callResults[1].out.obligationId = "java.stdin_tests_provide"
    /\ ~judgeExecuted(callResults[1].steps)

\* the completion's samples went through coerceNonEmptySamplePairs: every
\* branch but the stdin-driven Java one, which takes its samples from the
\* execution of the reference
SamplesCoerced(out) ==
    /\ out.ok
    /\ out.path = "generate"
    /\ (genSlot.language = "java" /\ "reference_solution" \in DOMAIN out.draft)
           => ~javaUsesStdin(out.draft.reference_solution)

SamplesReplaced(raw) ==
    \/ Min(raw.sample_inputs, MaxSamplePairs) = 0
    \/ Min(raw.sample_outputs, MaxSamplePairs) = 0
    \/ Min(raw.sample_inputs, MaxSamplePairs) # Min(raw.sample_outputs, MaxSamplePairs)

\* C33: when the trimmed lists, truncated to 10, are empty on one side or of
\* different lengths, the returned draft carries a single pair and the
\* replacement is recorded as a rewrite; otherwise the draft carries the
\* truncated lists and no such rewrite is recorded.
C33_ReplacedSamplesRecordedAsRewrite ==
    SamplesCoerced(genOut) =>
        IF SamplesReplaced(genRaw)
        THEN /\ genOut.draft.sample_inputs = 1
             /\ genOut.draft.sample_outputs = 1
             /\ Contains(genOut.rewrites, "samples.autofill")
        ELSE /\ genOut.draft.sample_inputs = Min(genRaw.sample_inputs, MaxSamplePairs)
             /\ genOut.draft.sample_outputs = Min(genRaw.sample_outputs, MaxSamplePairs)
             /\ ~Contains(genOut.rewrites, "samples.autofill")

\* the same without the record of the rewrite
C33_ReplacedSamplesAreOnePair ==
    SamplesCoerced(genOut) =>
        IF SamplesReplaced(genRaw)
        THEN /\ genOut.draft.sample_inputs = 1
             /\ genOut.draft.sample_outputs = 1
        ELSE /\ genOut.draft.sample_inputs = Min(genRaw.sample_inputs, MaxSamplePairs)
             /\ genOut.draft.sample_outputs = Min(genRaw.sample_outputs, MaxSamplePairs)

\* the Java single-file branch records the replacement
C33_JavaReplacementRecorded ==
    (SamplesCoerced(genOut) /\ genSlot.language = "java")
        => (SamplesReplaced(genRaw) <=> Contains(genOut.rewrites, "samples.autofill"))

\* a Python draft returned with its samples replaced and no rewrite recorded
C33_PythonReplacementUnrecorded ==
    /\ SamplesCoerced(genOut)
    /\ genSlot.language = "python"
    /\ SamplesReplaced(genRaw)
    /\ genOut.draft.sample_inputs = 1
    /\ genOut.rewrites = <<>>

(***************************************************************************)
(* The scanner loops of utils/javaSource.ts, one iteration at a time.  A   *)
(* source is a sequence of lexemes: those of ScanChars without the stream  *)
(* words, and "@", "(", ")" and the modifier final.  Indices are 1-based:  *)
(* the code's i is the model's i - 1.                                      *)
(***************************************************************************)
ScannerWords == {"public", "class", "final", "T"}

ScannerChars == {"q", "a", "b", "n", "/", "*", "{", "}", "@", "(", ")"} \cup ScannerWords

isWordStart(ch) == ch \in ScannerWords

\* readWord: <<>> is the code's null, else the word and the index behind it
readWord(src, i) ==
    IF i > Len(src) THEN <<>>
    ELSE IF ~isWordStart(src[i]) THEN <<>>
    ELSE <<[word |-> src[i], next |-> i + 1]>>

\* the ScanState transition every loop repeats: what consuming the lexeme at
\* k does in state mode.  handled is FALSE when the lexeme is left to the
\* caller (a code lexeme that opens no comment and no literal).
scanStateStep(src, k, mode) ==
    CASE mode = "line" ->
            [handled |-> TRUE, next |-> k + 1, mode |-> IF src[k] = "n" THEN "code" ELSE "line"]
      [] mode = "block" ->
            IF src[k] = "*" /\ CharAt(src, k + 1) = "/"
            THEN [handled |-> TRUE, next |-> k + 2, mode |-> "code"]
            ELSE [handled |-> TRUE, next |-> k + 1, mode |-> "block"]
      [] mode = "string" ->
            [handled |-> TRUE, next |-> k + 1,
             mode |-> CASE src[k] = "b" -> "stringEscaped" [] src[k] = "q" -> "code" [] OTHER -> "string"]
      [] mode = "stringEscaped" -> [handled |-> TRUE, next |-> k + 1, mode |-> "string"]
      [] mode = "char" ->
            [handled |-> TRUE, next |-> k + 1,
             mode |-> CASE src[k] = "b" -> "charEscaped" [] src[k] = "a" -> "code" [] OTHER -> "char"]
      [] mode = "charEscaped" -> [handled |-> TRUE, next |-> k + 1, mode |-> "char"]
      [] OTHER ->
            IF src[k] = "/" /\ CharAt(src, k + 1) = "/"
            THEN [handled |-> TRUE, next |-> k + 2, mode |-> "line"]
            ELSE IF src[k] = "/" /\ CharAt(src, k + 1) = "*"
            THEN [handled |-> TRUE, next |-> k + 2, mode |-> "block"]
            ELSE IF src[k] = "q" THEN [handled |-> TRUE, next |-> k + 1, mode |-> "string"]
            ELSE IF src[k] = "a" THEN [handled |-> TRUE, next |-> k + 1, mode |-> "char"]
            ELSE [handled |-> FALSE, next |-> k, mode |-> "code"]

\* skipAnnotation's loop over the parameters, from the opening parenthesis:
\* the index to resume at and the ScanState it leaves behind (the state
\* object is the caller's)
RECURSIVE skipAnnotationParams(_, _, _, _)
skipAnnotationParams(src, k, parenDepth, mode) ==
    IF k > Len(src) THEN [next |-> k, mode |-> mode]
    ELSE Bind(scanStateStep(src, k, mode), LAMBDA step :
         IF step.handled THEN skipAnnotationParams(src, step.next, parenDepth, step.mode)
         ELSE IF src[k] = "(" THEN skipAnnotationParams(src, k + 1, parenDepth + 1, mode)
         ELSE IF src[k] = ")"
              THEN IF parenDepth - 1 <= 0 THEN [next |-> k + 1, mode |-> mode]
                   ELSE skipAnnotationParams(src, k + 1, parenDepth - 1, mode)
         ELSE skipAnnotationParams(src, k + 1, parenDepth, mode))

\* skipAnnotation(src, i, depth, state) with src[i] = "@": the identifier,
\* blanks, and the parameters if a parenthesis follows
skipAnnotation(src, i, mode) ==
    Bind(skipWhitespace(src, IF isWordStart(CharAt(src, i + 1)) THEN i + 2 ELSE i + 1), LAMBDA j :
         IF CharAt(src, j) # "(" THEN [next |-> j, mode |-> mode]
         ELSE skipAnnotationParams(src, j, 0, mode))

\* the lookahead of getTopLevelPublicTypeNames behind a top-level `public`
RECURSIVE namesLookahead(_, _, _)
namesLookahead(src, from, mode) ==
    Bind(skipWhitespace(src, from), LAMBDA j :
    IF j > Len(src) THEN [names |-> <<>>, next |-> j, mode |-> mode]
    ELSE IF src[j] = "@"
         THEN Bind(skipAnnotation(src, j, mode), LAMBDA skipped :
                   namesLookahead(src, skipped.next, skipped.mode))
    ELSE Bind(readWord(src, j), LAMBDA nextWord :
         IF nextWord = <<>> THEN [names |-> <<>>, next |-> j, mode |-> mode]
         ELSE IF nextWord[1].word = "final" THEN namesLookahead(src, nextWord[1].next, mode)
         ELSE IF nextWord[1].word = "class"
              THEN Bind(skipWhitespace(src, nextWord[1].next), LAMBDA m :
                   Bind(readWord(src, m), LAMBDA nameWord :
                        [names |-> IF nameWord # <<>> THEN <<nameWord[1].word>> ELSE <<>>,
                         next |-> m, mode |-> mode]))
         ELSE [names |-> <<>>, next |-> nextWord[1].next, mode |-> mode]))

\* the lookahead of getTopLevelPublicTypeDecls; wordStart is the code's
\* 0-based index of `public`, which is one lexeme long here
RECURSIVE declsLookahead(_, _, _, _)
declsLookahead(src, from, mode, wordStart) ==
    Bind(skipWhitespace(src, from), LAMBDA j :
    IF j > Len(src) THEN [decls |-> <<>>, next |-> j, mode |-> mode]
    ELSE IF src[j] = "@"
         THEN Bind(skipAnnotation(src, j, mode), LAMBDA skipped :
                   declsLookahead(src, skipped.next, skipped.mode, wordStart))
    ELSE Bind(readWord(src, j), LAMBDA nextWord :
         IF nextWord = <<>> THEN [decls |-> <<>>, next |-> j, mode |-> mode]
         ELSE IF nextWord[1].word = "final" THEN declsLookahead(src, nextWord[1].next, mode, wordStart)
         ELSE IF nextWord[1].word = "class"
              THEN Bind(skipWhitespace(src, nextWord[1].next), LAMBDA m :
                   Bind(readWord(src, m), LAMBDA nameWord :
                        [decls |-> IF nameWord # <<>> /\ nameWord[1].word # ""
                                   THEN <<[name |-> nameWord[1].word, keyword |-> nextWord[1].word,
                                           publicStart |-> wordStart, publicEnd |-> wordStart + 1]>>
                                   ELSE <<>>,
                         next |-> m, mode |-> mode]))
         ELSE [decls |-> <<>>, next |-> nextWord[1].next, mode |-> mode]))

\* the state of a scanner loop: the query, the index i, the brace depth, the
\* ScanState, the list built so far, the iterations made, and whether the
\* function has returned
LoopStart(query) ==
    [query |-> query, i |-> 1, depth |-> 0, mode |-> "code", out |-> <<>>,
     iterations |-> 0, returned |-> FALSE]

\* an iteration that leaves the index where it is, for comparison
codeLexemeStepStaying(src, loop) == loop

\* what an iteration does with a code lexeme that opens nothing, up to the
\* word test: braces, nested code and non-words are passed over
codeLexemeStep(src, loop) ==
    CASE src[loop.i] = "{" -> [loop EXCEPT !.i = @ + 1, !.depth = @ + 1]
      [] src[loop.i] = "}" -> [loop EXCEPT !.i = @ + 1, !.depth = IF @ - 1 > 0 THEN @ - 1 ELSE 0]
      [] OTHER -> [loop EXCEPT !.i = @ + 1]

\* one iteration of the while loop of getTopLevelPublicTypeNames
publicTypeNamesIteration(src, loop) ==
    Bind(scanStateStep(src, loop.i, loop.mode), LAMBDA step :
    IF step.handled THEN [loop EXCEPT !.i = step.next, !.mode = step.mode]
    ELSE IF src[loop.i] \in {"{", "}"} \/ loop.depth # 0 \/ ~isWordStart(src[loop.i])
         THEN codeLexemeStep(src, loop)
    ELSE Bind(readWord(src, loop.i), LAMBDA w :
         IF w = <<>> THEN [loop EXCEPT !.i = @ + 1]
         ELSE IF w[1].word # "public" THEN [loop EXCEPT !.i = w[1].next]
         ELSE Bind(namesLookahead(src, w[1].next, loop.mode), LAMBDA ahead :
                   [loop EXCEPT !.i = ahead.next, !.mode = ahead.mode,
                                !.out = @ \o ahead.names])))

\* one iteration of the while loop of getTopLevelTypeDecls
typeDeclsIteration(src, loop) ==
    Bind(scanStateStep(src, loop.i, loop.mode), LAMBDA step :
    IF step.handled THEN [loop EXCEPT !.i = step.next, !.mode = step.mode]
    ELSE IF src[loop.i] \in {"{", "}"} \/ loop.depth # 0 \/ ~isWordStart(src[loop.i])
         THEN codeLexemeStep(src, loop)
    ELSE Bind(readWord(src, loop.i), LAMBDA w :
         IF w = <<>> THEN [loop EXCEPT !.i = @ + 1]
         ELSE IF w[1].word # "class" THEN [loop EXCEPT !.i = w[1].next]
         ELSE Bind(skipWhitespace(src, w[1].next), LAMBDA j :
              Bind(readWord(src, j), LAMBDA nameWord :
                   [loop EXCEPT
                       !.i = IF nameWord # <<>> THEN nameWord[1].next ELSE j,
                       !.out = IF nameWord # <<>> /\ nameWord[1].word # ""
                               THEN @ \o <<[name |-> nameWord[1].word, keyword |-> w[1].word,
                                            keywordStart |-> loop.i - 1]>>
                               ELSE @]))))

\* the declarations scanner without the test for `public`, for comparison
publicTypeDeclsIterationAnyType(src, loop) == typeDeclsIteration(src, loop)

\* one iteration of the while loop of getTopLevelPublicTypeDecls
publicTypeDeclsIteration(src, loop) ==
    Bind(scanStateStep(src, loop.i, loop.mode), LAMBDA step :
    IF step.handled THEN [loop EXCEPT !.i = step.next, !.mode = step.mode]
    ELSE IF src[loop.i] \in {"{", "}"} \/ loop.depth # 0 \/ ~isWordStart(src[loop.i])
         THEN codeLexemeStep(src, loop)
    ELSE Bind(readWord(src, loop.i), LAMBDA w :
         IF w = <<>> THEN [loop EXCEPT !.i = @ + 1]
         ELSE IF w[1].word # "public" THEN [loop EXCEPT !.i = w[1].next]
         ELSE Bind(declsLookahead(src, w[1].next, loop.mode, loop.i - 1), LAMBDA ahead :
                   [loop EXCEPT !.i = ahead.next, !.mode = ahead.mode,
                                !.out = @ \o ahead.decls])))

scannerIteration(src, loop) ==
    Bind(CASE loop.query = "getTopLevelPublicTypeNames" -> publicTypeNamesIteration(src, loop)
           [] loop.query = "getTopLevelPublicTypeDecls" -> publicTypeDeclsIteration(src, loop)
           [] OTHER -> typeDeclsIteration(src, loop),
         LAMBDA next : [next EXCEPT !.iterations = @ + 1])

(***************************************************************************)
(* The scanner queries called one after the other on a drawn source, each  *)
(* loop advanced one iteration per step.                                   *)
(***************************************************************************)
MaxLoopLen == 3

ScannerQueries ==
    <<"getTopLevelPublicTypeNames", "getTopLevelPublicTypeDecls", "getTopLevelTypeDecls">>

\* sources: every short sequence of lexemes, and annotated declarations whose
\* annotation parameters hold any short sequence and are closed or left open
ScannerSources ==
    {<<>>} \cup SeqsUpTo(ScannerChars, MaxLoopLen)
    \cup {<<"public", "@", "T", "(">> \o params \o rest :
             params \in {<<>>} \cup SeqsUpTo(ScannerChars, MaxLoopLen - 1),
             rest \in {<<>>, <<")", "class", "T">>}}

InitScanner ==
    /\ \E source \in ScannerSources :
          callArgs = [function |-> "javaSource", source |-> source]
    /\ callResults = <<>>
    /\ IdlePlan
    /\ IdleGen
    /\ IdleRun
    /\ IdleRewrite
    /\ IdleScan
    /\ IdleApp

\* the next query is called once the one before it has returned
CallScanner ==
    /\ callArgs.function = "javaSource"
    /\ Len(callResults) < Len(ScannerQueries)
    /\ callResults # <<>> => callResults[Len(callResults)].returned
    /\ callResults' = Append(callResults, LoopStart(ScannerQueries[Len(callResults) + 1]))
    /\ UNCHANGED <<callArgs, varsPlan, varsGen, varsRun, varsRewrite, varsScan, varsApp>>

\* while (i < source.length): one iteration of the running loop
ScanIteration ==
    /\ callArgs.function = "javaSource"
    /\ callResults # <<>>
    /\ ~callResults[Len(callResults)].returned
    /\ callResults[Len(callResults)].i <= Len(callArgs.source)
    /\ callResults' = [callResults EXCEPT ![Len(callResults)] = scannerIteration(callArgs.source, @)]
    /\ UNCHANGED <<callArgs, varsPlan, varsGen, varsRun, varsRewrite, varsScan, varsApp>>

\* the loop condition fails and the list is returned
ScanReturn ==
    /\ callArgs.function = "javaSource"
    /\ callResults # <<>>
    /\ ~callResults[Len(callResults)].returned
    /\ callResults[Len(callResults)].i > Len(callArgs.source)
    /\ callResults' = [callResults EXCEPT ![Len(callResults)].returned = TRUE]
    /\ UNCHANGED <<callArgs, varsPlan, varsGen, varsRun, varsRewrite, varsScan, varsApp>>

NextScanner == CallScanner \/ ScanIteration \/ ScanReturn

SpecScanner == InitScanner /\ [][NextScanner]_vars

\* a called function runs: its loop is sequential code of one thread
SpecScannerFair ==
    /\ SpecScanner
    /\ WF_vars(CallScanner)
    /\ WF_vars(ScanIteration)
    /\ WF_vars(ScanReturn)

AllQueriesReturned ==
    /\ Len(callResults) = Len(ScannerQueries)
    /\ \A q \in 1..Len(callResults) : callResults[q].returned

\* the index only moves forward, by at least one lexeme per iteration, and
\* never past the end of the source; a query on a source without a type
\* keyword returns the empty list
SingleForwardPass ==
    callArgs.function = "javaSource" =>
        \A q \in 1..Len(callResults) :
            /\ callResults[q].iterations < callResults[q].i
            /\ callResults[q].i <= Len(callArgs.source) + 1
            /\ callResults[q].returned => callResults[q].i = Len(callArgs.source) + 1
            /\ ~Contains(callArgs.source, "class") => callResults[q].out = <<>>

\* C34: on every source, malformed ones included (unterminated string, char
\* literal or block comment, unbalanced braces, dangling annotation), each
\* scanner query makes a single forward pass and returns; it returns the
\* empty list when the source declares nothing.
C34_ScannerQueriesTerminate ==
    []SingleForwardPass /\ <>AllQueriesReturned

\* each iteration moves the index forward
C34_IterationAdvances ==
    [][ScanIteration =>
          callResults'[Len(callResults)].i > callResults[Len(callResults)].i]_vars

\* the three queries returned on a public declaration whose annotation
\* parameters open a string literal that is never closed
C34_DanglingAnnotationReturned ==
    /\ callArgs.function = "javaSource"
    /\ callArgs.source = <<"public", "@", "T", "(", "q", "}">>
    /\ AllQueriesReturned
    /\ callResults[1].out = <<>>

\* C38: for every source, getTopLevelPublicTypeNames returns the names of the
\* declarations getTopLevelPublicTypeDecls returns, in the same order.
C38_NamesAreNamesOfDecls ==
    (callArgs.function = "javaSource" /\ Len(callResults) >= 2 /\ callResults[2].returned) =>
        /\ Len(callResults[1].out) = Len(callResults[2].out)
        /\ \A k \in 1..Len(callResults[2].out) :
              callResults[1].out[k] = callResults[2].out[k].name

\* both queries returned the public type behind a closed annotation
C38_AnnotatedPublicTypeFound ==
    /\ callArgs.function = "javaSource"
    /\ callArgs.source = <<"public", "@", "T", "(", "q", "q", ")", "class", "T">>
    /\ Len(callResults) >= 2
    /\ callResults[2].returned
    /\ callResults[1].out = <<"T">>
    /\ callResults[2].out = <<[name |-> "T", keyword |-> "class", publicStart |-> 0, publicEnd |-> 1]>>

\* C37: every draft generateSingleProblem returns has the difficulty of the
\* slot and the slot's first topic as topic_tag, whatever the completion
\* carried in those fields.
C37_DraftTagsComeFromSlot ==
    \A out \in Invocations :
        out.ok => /\ out.draft.difficulty = genSlot.difficulty
                  /\ out.draft.topic_tag = genSlot.topics[1]

\* a draft returned from a completion that carries another difficulty and
\* another topic_tag than the slot
C37_CompletionTagsIgnored ==
    /\ genOut.ok
    /\ genOut.path = "generate"
    /\ genRaw.difficulty # genSlot.difficulty
    /\ genRaw.topic_tag # genSlot.topics[1]
    /\ genOut.draft.difficulty = genSlot.difficulty
    /\ genOut.draft.topic_tag = genSlot.topics[1]

\* the same in the Java workspace branch
C37_WorkspaceDraftTagsComeFromSlot ==
    (callResults # <<>> /\ callArgs.function = "generateSingleProblem" /\ callResults[1].out.ok) =>
        /\ callResults[1].out.draft.difficulty = callArgs.slot.difficulty
        /\ callResults[1].out.draft.topic_tag = callArgs.slot.topics[1]

(***************************************************************************)
(* The desktop shell (apps/ide main.js): the Electron main process, its    *)
(* boot sequence createWindowAndBoot, the child processes it spawns, the   *)
(* IPC handlers it registers and the secrets store.                        *)
(***************************************************************************)
MaxBoots == 2

\* safeStorage.encryptString / decryptString: the ciphertext of a key is a
\* value of its own, from which only decryptString gets the key back
encryptString(plain) == <<"safeStorage", plain>>

decryptString(buf) == buf[2]

\* the secrets file without a key: llm is null, written as the empty tuple
NoSecrets == [v |-> 1, llm |-> <<>>]

\* saveSecrets: the file written to secrets.json
saveSecrets(provider, apiKey) ==
    [v |-> 1, llm |-> <<[provider |-> provider, apiKeyEncB64 |-> encryptString(apiKey),
                        updatedAt |-> "now"]>>]

\* clearSecrets
clearSecrets == NoSecrets

\* loadSecrets(...).llm: "null", or the provider with the decrypted key
loadSecrets(file) ==
    IF file.llm = <<>> THEN [present |-> FALSE, provider |-> "null", apiKey |-> "", updatedAt |-> "null"]
    ELSE [present |-> TRUE, provider |-> file.llm[1].provider,
          apiKey |-> decryptString(file.llm[1].apiKeyEncB64), updatedAt |-> file.llm[1].updatedAt]

\* the keys a user can have stored, and what the renderer can send as apiKey
ApiKeys == {"sk-key-one-0001", "sk-key-two-0002"}

KeyArguments == ApiKeys \cup {"", "short"}

ProviderArguments == {"openai", "other"}

\* apiKey.length of the strings above
KeyLength(apiKey) == CASE apiKey = "" -> 0 [] apiKey = "short" -> 5 [] OTHER -> 15

MinKeyLength == 10

\* a handler that hands the stored key to the renderer, for comparison
getLlmSettingsWithKey(file) ==
    [channel |-> "codemm:secrets:getLlmSettings",
     configured |-> loadSecrets(file).present /\ loadSecrets(file).apiKey # "",
     provider |-> loadSecrets(file).apiKey,
     updatedAt |-> loadSecrets(file).updatedAt]

\* the reply of codemm:secrets:getLlmSettings
getLlmSettings(file) ==
    [channel |-> "codemm:secrets:getLlmSettings",
     configured |-> loadSecrets(file).present /\ loadSecrets(file).apiKey # "",
     provider |-> loadSecrets(file).provider,
     updatedAt |-> loadSecrets(file).updatedAt]

\* codemm:secrets:setLlmSettings: the reply, or the Error the invoke rejects
\* with, and the secrets file afterwards
setLlmSettings(file, provider, apiKey) ==
    IF provider # "openai"
    THEN [file |-> file, reply |-> [channel |-> "codemm:secrets:setLlmSettings", error |-> "Invalid provider."]]
    ELSE IF apiKey = "" \/ KeyLength(apiKey) < MinKeyLength
    THEN [file |-> file, reply |-> [channel |-> "codemm:secrets:setLlmSettings", error |-> "API key is required."]]
    ELSE [file |-> saveSecrets(provider, apiKey),
          reply |-> [channel |-> "codemm:secrets:setLlmSettings", ok |-> TRUE,
                     updatedAt |-> saveSecrets(provider, apiKey).llm[1].updatedAt]]

\* codemm:workspace:get and codemm:workspace:choose
workspaceGet(currentWorkspace) ==
    IF currentWorkspace = "null" THEN [channel |-> "codemm:workspace:get", workspaceDir |-> "null"]
    ELSE [channel |-> "codemm:workspace:get", workspaceDir |-> currentWorkspace,
          workspaceDataDir |-> currentWorkspace]

workspaceChoose(chosen) ==
    IF chosen = "null"
    THEN [channel |-> "codemm:workspace:choose", ok |-> FALSE, error |-> "Workspace selection canceled."]
    ELSE [channel |-> "codemm:workspace:choose", ok |-> TRUE, workspaceDir |-> chosen,
          workspaceDataDir |-> chosen]

NoReply == [channel |-> "none"]

\* one invocation of createWindowAndBoot: where it is suspended, the window
\* it created, the children it spawned and whether it registered cleanup
Boot(at) ==
    [pc |-> at, window |-> FALSE, backendProc |-> "null", frontendProc |-> "null",
     cleanup |-> FALSE]

\* killProcessTree(proc): SIGTERM to the process group of a running child
killProcessTree(proc) == IF proc = "running" THEN "terminated" ELSE proc

\* the before-quit listener a finished boot registered: cleanup()
cleanupOf(boot) ==
    IF boot.cleanup
    THEN [boot EXCEPT !.frontendProc = killProcessTree(@), !.backendProc = killProcessTree(@)]
    ELSE boot

\* app.quit(): before-quit is emitted to the listeners registered so far,
\* the windows close and the process ends
appQuit(d) ==
    IF d.quit THEN d
    ELSE [d EXCEPT !.quit = TRUE,
                   !.isQuiting = \E b \in 1..Len(d.boots) : d.boots[b].cleanup,
                   !.mainWindow = 0,
                   !.boots = [b \in 1..Len(d.boots) |-> [cleanupOf(d.boots[b]) EXCEPT !.window = FALSE]]]

\* createWindowAndBoot up to its first await
createWindowAndBoot(d) ==
    IF ~d.dockerBin
    THEN appQuit([d EXCEPT !.boots = Append(@, Boot("returned"))])
    ELSE [d EXCEPT !.boots = Append(@, Boot("waitForDockerRunning"))]

\* createWindowAndBoot resumed behind the await it is suspended at, the
\* awaited call having succeeded (ok) or not
resumeBoot(d, b, ok) ==
    LET boot == d.boots[b]
        failed == appQuit([d EXCEPT !.boots[b].pc = "returned"])
    IN  CASE boot.pc = "waitForDockerRunning" ->
                IF ok THEN [d EXCEPT !.boots[b].pc = "resolveWorkspace"] ELSE failed
          [] boot.pc = "resolveWorkspace" ->
                IF ok THEN [d EXCEPT !.boots[b].pc = "ensureNodeModules",
                                     !.boots[b].window = TRUE,
                                     !.currentWorkspace = "workspace-a",
                                     !.ipcWired = TRUE,
                                     !.mainWindow = b]
                ELSE failed
          [] boot.pc = "ensureNodeModules" ->
                IF ok THEN [d EXCEPT !.boots[b].pc = "ensureJudgeImages"] ELSE failed
          [] boot.pc = "ensureJudgeImages" ->
                IF ok THEN [d EXCEPT !.boots[b].pc = "backendHealth", !.boots[b].backendProc = "running"]
                ELSE failed
          [] boot.pc = "backendHealth" ->
                IF ok THEN [d EXCEPT !.boots[b].pc = "frontendHealth", !.boots[b].frontendProc = "running"]
                ELSE appQuit([d EXCEPT !.boots[b].pc = "returned",
                                       !.boots[b].backendProc = killProcessTree(@)])
          [] boot.pc = "frontendHealth" ->
                IF ok THEN [d EXCEPT !.boots[b].pc = "loadURL"]
                ELSE appQuit([d EXCEPT !.boots[b].pc = "returned",
                                       !.boots[b].frontendProc = killProcessTree(@),
                                       !.boots[b].backendProc = killProcessTree(@)])
          [] boot.pc = "loadURL" ->
                IF ok THEN [d EXCEPT !.boots[b].pc = "done", !.boots[b].cleanup = TRUE]
                ELSE [d EXCEPT !.boots[b].pc = "returned"]
          [] OTHER -> d

Suspended(boot) == boot.pc \notin {"done", "returned"}

StoredSecrets == {NoSecrets} \cup {saveSecrets("openai", key) : key \in ApiKeys}

InitDesktop ==
    /\ \E dockerBin \in BOOLEAN, file \in StoredSecrets :
          desktop = [running |-> TRUE, ready |-> FALSE, quit |-> FALSE, isQuiting |-> FALSE,
                     dockerBin |-> dockerBin, mainWindow |-> 0, ipcWired |-> FALSE,
                     currentWorkspace |-> "null", boots |-> <<>>,
                     secrets |-> file, reply |-> NoReply]
    /\ server = NotRunning
    /\ IdlePlan
    /\ IdleGen
    /\ IdleRun
    /\ IdleRewrite
    /\ IdleScan
    /\ IdleCall

Live == desktop.running /\ ~desktop.quit

\* app.whenReady().then(createWindowAndBoot)
WhenReady ==
    /\ Live
    /\ ~desktop.ready
    /\ desktop' = createWindowAndBoot([desktop EXCEPT !.ready = TRUE])
    /\ UNCHANGED <<server, varsPlan, varsGen, varsRun, varsRewrite, varsScan, varsCall>>

\* app.on("activate"): the window is shown, or a boot is started
Activate ==
    /\ Live
    /\ desktop.ready
    /\ Len(desktop.boots) < MaxBoots
    /\ desktop' = IF desktop.mainWindow # 0 THEN desktop ELSE createWindowAndBoot(desktop)
    /\ UNCHANGED <<server, varsPlan, varsGen, varsRun, varsRewrite, varsScan, varsCall>>

\* an awaited call of a suspended boot settles
ResumeBoot ==
    /\ Live
    /\ \E b \in 1..Len(desktop.boots), ok \in BOOLEAN :
          /\ Suspended(desktop.boots[b])
          /\ desktop' = resumeBoot(desktop, b, ok)
    /\ UNCHANGED <<server, varsPlan, varsGen, varsRun, varsRewrite, varsScan, varsCall>>

\* the user closes a window: its closed listener clears mainWindow, and
\* window-all-closed quits the app when it was the last one
CloseWindow ==
    /\ Live
    /\ \E b \in 1..Len(desktop.boots) :
          /\ desktop.boots[b].window
          /\ desktop' =
                Bind([desktop EXCEPT !.boots[b].window = FALSE, !.mainWindow = 0], LAMBDA d :
                     IF \E o \in 1..Len(d.boots) : d.boots[o].window THEN d ELSE appQuit(d))
    /\ UNCHANGED <<server, varsPlan, varsGen, varsRun, varsRewrite, varsScan, varsCall>>

\* a child exits on its own, or fails to start: its exit or error listener
\* quits the app
ChildExit ==
    /\ Live
    /\ \E b \in 1..Len(desktop.boots), proc \in {"backendProc", "frontendProc"} :
          /\ desktop.boots[b][proc] = "running"
          /\ desktop' = Bind([desktop EXCEPT !.boots[b][proc] = "exited"], LAMBDA d :
                             IF d.isQuiting THEN d ELSE appQuit(d))
    /\ UNCHANGED <<server, varsPlan, varsGen, varsRun, varsRewrite, varsScan, varsCall>>

\* the user quits the app from the menu
QuitFromMenu ==
    /\ Live
    /\ desktop.ready
    /\ desktop' = appQuit(desktop)
    /\ UNCHANGED <<server, varsPlan, varsGen, varsRun, varsRewrite, varsScan, varsCall>>

\* the renderer invokes one of the codemm:* channels
InvokeIpc ==
    /\ Live
    /\ desktop.ipcWired
    /\ \/ desktop' = [desktop EXCEPT !.reply = getLlmSettings(desktop.secrets)]
       \/ \E provider \in ProviderArguments, apiKey \in KeyArguments :
             desktop' = Bind(setLlmSettings(desktop.secrets, provider, apiKey), LAMBDA r :
                             [desktop EXCEPT !.secrets = r.file, !.reply = r.reply])
       \/ desktop' = [desktop EXCEPT !.secrets = clearSecrets,
                                     !.reply = [channel |-> "codemm:secrets:clearLlmSettings", ok |-> TRUE]]
       \/ desktop' = [desktop EXCEPT !.reply = workspaceGet(desktop.currentWorkspace)]
       \/ \E chosen \in {"null", "workspace-b"} :
             desktop' = [desktop EXCEPT
                            !.currentWorkspace = IF chosen = "null" THEN @ ELSE chosen,
                            !.reply = workspaceChoose(chosen)]
    /\ UNCHANGED <<server, varsPlan, varsGen, varsRun, varsRewrite, varsScan, varsCall>>

NextDesktop ==
    \/ WhenReady
    \/ Activate
    \/ ResumeBoot
    \/ CloseWindow
    \/ ChildExit
    \/ QuitFromMenu
    \/ InvokeIpc

SpecDesktop == InitDesktop /\ [][NextDesktop]_vars

Children(d) ==
    {d.boots[b].backendProc : b \in 1..Len(d.boots)} \cup {d.boots[b].frontendProc : b \in 1..Len(d.boots)}

\* C35: whenever the app has quit after a backend or frontend child was
\* spawned, no spawned child is left running, whichever event led to the quit.
C35_NoChildOutlivesQuit ==
    desktop.running /\ desktop.quit => "running" \notin Children(desktop)

\* the same for a quit after every boot sequence has run to its end and
\* registered its before-quit listener
C35_NoChildOutlivesQuitAfterBoot ==
    (/\ desktop.running
     /\ desktop.quit
     /\ \A b \in 1..Len(desktop.boots) : desktop.boots[b].pc = "done")
        => "running" \notin Children(desktop)

\* the window was closed while the boot waited for the backend's health
\* route: the app has quit and the backend child runs on
C35_BackendLeftRunning ==
    /\ desktop.running
    /\ desktop.quit
    /\ Len(desktop.boots) = 1
    /\ desktop.boots[1].pc = "backendHealth"
    /\ desktop.boots[1].backendProc = "running"

\* C40: at most one boot sequence runs per app lifetime: createWindowAndBoot
\* is never started while an earlier invocation is in progress, and at most
\* one backend and one frontend child are spawned.
C40_AtMostOneBoot ==
    desktop.running =>
        /\ Cardinality({b \in 1..Len(desktop.boots) : Suspended(desktop.boots[b])}) <= 1
        /\ Cardinality({b \in 1..Len(desktop.boots) : desktop.boots[b].backendProc # "null"}) <= 1
        /\ Cardinality({b \in 1..Len(desktop.boots) : desktop.boots[b].frontendProc # "null"}) <= 1

\* once a window exists, activate starts no boot
C40_NoBootWhileWindowShown ==
    [][(desktop.running /\ desktop.mainWindow # 0 /\ Activate)
          => desktop'.boots = desktop.boots]_vars

\* two boots have each spawned a backend
C40_TwoBackendsSpawned ==
    /\ desktop.running
    /\ Len(desktop.boots) = 2
    /\ desktop.boots[1].backendProc = "running"
    /\ desktop.boots[2].backendProc = "running"

\* the string fields of a reply
ReplyStrings(reply) ==
    {reply[f] : f \in DOMAIN reply \cap {"channel", "provider", "updatedAt", "error",
                                         "workspaceDir", "workspaceDataDir"}}

\* C36: no reply of a codemm:* handler carries the stored API key, and the
\* reply of codemm:secrets:getLlmSettings is the same for any two stored keys
\* that agree on `configured`.
C36_KeyNeverReplied ==
    desktop.running =>
        /\ ReplyStrings(desktop.reply) \cap ApiKeys = {}
        /\ \A key \in ApiKeys :
              loadSecrets(desktop.secrets).apiKey # "" =>
                  getLlmSettings(saveSecrets(loadSecrets(desktop.secrets).provider, key))
                      = getLlmSettings(desktop.secrets)

\* the renderer asked for the settings while a key was stored
C36_SettingsRepliedWithKeyStored ==
    /\ desktop.running
    /\ loadSecrets(desktop.secrets).apiKey \in ApiKeys
    /\ desktop.reply = [channel |-> "codemm:secrets:getLlmSettings", configured |-> TRUE,
                        provider |-> "openai", updatedAt |-> "now"]

(***************************************************************************)
(* The activity routes of the backend (server.ts): one stored activity,    *)
(* the requests that edit or publish it, and the ai-edit requests that are *)
(* suspended in their LLM call.                                            *)
(***************************************************************************)
MaxEditRequests == 2

\* 8 * 60 * 60, the largest time limit PATCH stores
MaxTimeLimitSeconds == 28800

\* a problem of the activity; rev counts the edits applied to it
StoredProblem(id, rev) == [id |-> id, rev |-> rev]

\* activityDb.update(id, fields): the given columns are replaced
updateRow(row, fields) == [f \in DOMAIN row |-> IF f \in DOMAIN fields THEN fields[f] ELSE row[f]]

\* dbActivity.status ?? "DRAFT"
statusOf(row) == IF row.status = "null" THEN "DRAFT" ELSE row.status

\* Math.max(0, Math.min(8 * 60 * 60, Math.trunc(n)))
clampTimeLimit(n) == IF n < 0 THEN 0 ELSE IF n > MaxTimeLimitSeconds THEN MaxTimeLimitSeconds ELSE n

\* request bodies of PATCH: title is a string or absent (<<>>); the time
\* limit is a number, null or absent
PatchTitles == {<<>>, <<"">>, <<"Renamed">>}

PatchTimeLimits == {[given |-> FALSE, value |-> <<>>], [given |-> TRUE, value |-> <<>>],
                    [given |-> TRUE, value |-> <<0 - 5>>], [given |-> TRUE, value |-> <<600>>],
                    [given |-> TRUE, value |-> <<MaxTimeLimitSeconds + 1>>]}

\* the columns PATCH /activities/:id writes
patchFields(title, timeLimit) ==
    (IF title # <<>> /\ title[1] # "" THEN [title |-> title[1]] ELSE <<>>)
    @@ (IF timeLimit.given
        THEN [time_limit_seconds |->
                 IF timeLimit.value = <<>> THEN <<>> ELSE <<clampTimeLimit(timeLimit.value[1])>>]
        ELSE <<>>)

\* PATCH /activities/:id
patchActivity(row, title, timeLimit) ==
    IF statusOf(row) # "DRAFT" THEN [status |-> 409, row |-> row]
    ELSE [status |-> 200, row |-> updateRow(row, patchFields(title, timeLimit))]

\* POST /activities/:id/publish
publishActivity(row) ==
    IF statusOf(row) = "PUBLISHED" THEN row ELSE updateRow(row, [status |-> "PUBLISHED"])

\* problems.findIndex(p => p.id === problemId): 0 when there is none
problemIndex(stored, problemId) ==
    IF \E k \in 1..Len(stored) : stored[k].id = problemId
    THEN CHOOSE k \in 1..Len(stored) :
            stored[k].id = problemId /\ \A j \in 1..(k - 1) : stored[j].id # problemId
    ELSE 0

\* POST ai-edit up to the await of editDraftProblemWithAi: the response
\* status when the request is refused, else the problems it read and the
\* index it will replace
aiEditBegin(row, problemId, instruction) ==
    IF statusOf(row) # "DRAFT" THEN [status |-> 409]
    ELSE IF instruction = "" THEN [status |-> 400]
    ELSE IF problemIndex(row.problems, problemId) = 0 THEN [status |-> 404]
    ELSE [status |-> 0, problems |-> row.problems, idx |-> problemIndex(row.problems, problemId)]

\* POST ai-edit behind the await, editDraftProblemWithAi having returned:
\* the problems read before the call, with the edited problem put in, are
\* written back
aiEditEnd(row, request) ==
    updateRow(row, [problems |-> [request.problems EXCEPT
                                     ![request.idx] = StoredProblem(@.id, @.rev + 1)]])

InitServer ==
    /\ \E status \in {"null", "DRAFT"}, timeLimit \in {<<>>, <<600>>} :
          server = [running |-> TRUE,
                    row |-> [status |-> status, title |-> "Title", time_limit_seconds |-> timeLimit,
                             problems |-> <<StoredProblem("p1", 0), StoredProblem("p2", 0)>>],
                    editing |-> {},
                    editRequests |-> 0]
    /\ desktop = NotRunning
    /\ IdlePlan
    /\ IdleGen
    /\ IdleRun
    /\ IdleRewrite
    /\ IdleScan
    /\ IdleCall

PatchActivity ==
    /\ server.running
    /\ \E title \in PatchTitles, timeLimit \in PatchTimeLimits :
          server' = [server EXCEPT !.row = patchActivity(@, title, timeLimit).row]
    /\ UNCHANGED <<desktop, varsPlan, varsGen, varsRun, varsRewrite, varsScan, varsCall>>

PublishActivity ==
    /\ server.running
    /\ server' = [server EXCEPT !.row = publishActivity(@)]
    /\ UNCHANGED <<desktop, varsPlan, varsGen, varsRun, varsRewrite, varsScan, varsCall>>

\* an ai-edit request arrives and is refused, or is suspended in its LLM call
AiEditBegin ==
    /\ server.running
    /\ server.editRequests < MaxEditRequests
    /\ \E problemId \in {"p1", "p2", "p9"}, instruction \in {"", "simplify"} :
          \E begun \in {aiEditBegin(server.row, problemId, instruction)} :
              server' = [server EXCEPT
                            !.editRequests = @ + 1,
                            !.editing = IF begun.status = 0 THEN @ \cup {begun} ELSE @]
    /\ UNCHANGED <<desktop, varsPlan, varsGen, varsRun, varsRewrite, varsScan, varsCall>>

\* the LLM call of a suspended ai-edit settles: the edit is written, or the
\* call threw and the request answers 500
AiEditEnd ==
    /\ server.running
    /\ \E request \in server.editing, threw \in BOOLEAN :
          server' = [server EXCEPT
                        !.editing = @ \ {request},
                        !.row = IF threw THEN @ ELSE aiEditEnd(@, request)]
    /\ UNCHANGED <<desktop, varsPlan, varsGen, varsRun, varsRewrite, varsScan, varsCall>>

NextServer == PatchActivity \/ PublishActivity \/ AiEditBegin \/ AiEditEnd

SpecServer == InitServer /\ [][NextServer]_vars

Published == server.running /\ statusOf(server.row) = "PUBLISHED"

\* C39: once the activity is PUBLISHED its status never returns to DRAFT and
\* its title, time limit and problems never change, under any interleaving
\* of PATCH, ai-edit and publish requests.
C39_PublishedActivityFrozen ==
    [][Published => server'.row = server.row]_vars

\* the same without the problems
C39_PublishedStatusTitleLimitFrozen ==
    [][Published => /\ server'.row.status = server.row.status
                    /\ server'.row.title = server.row.title
                    /\ server'.row.time_limit_seconds = server.row.time_limit_seconds]_vars

\* an ai-edit request is suspended in its LLM call and the activity has
\* been published
C39_PublishedDuringEdit ==
    /\ Published
    /\ server.editing # {}

====
